---- MODULE Spec2Model ----
(***************************************************************************)
(* Model of MelFeatureExtractor (src/mel_feature_extraction.py).           *)
(*                                                                         *)
(* The extractor is stateless: every method is a pure function of the      *)
(* energy matrix mel_power and of AUDIO_CONFIG.  The state of the model is *)
(* the input (mel_power, config) and the value returned by the most recent *)
(* call (ret).  Every public method is one action that computes its whole  *)
(* return value.                                                           *)
(*                                                                         *)
(* Numbers.  The code works on floats; the model works on exact rationals. *)
(*  - A frame of mel_power is described by the two quantities every stage  *)
(*    reduces it to: its mean power over the bands and its spectral        *)
(*    centroid.  The mean power is (10^k - 1) * eps for a level k >= 0, so *)
(*    that 10*log10(mean + eps) is exactly -80 + 10*k dB.                  *)
(*  - The centroid is kept in half bins (c = 2 * centroid): a frame of     *)
(*    zero power has all its 64 bands at eps and so its centroid at 31.5.  *)
(*  - A rational is a pair <<n, d>> with d > 0; NaN is <<0, 0>>.  Every    *)
(*    comparison with NaN is false, as in IEEE arithmetic.                 *)
(*  - round(x, 1) and round(x, 2) become integers in tenths and hundredths *)
(*    (round half to even on the exact value).                             *)
(***************************************************************************)
EXTENDS Integers, Sequences, FiniteSets, TLC

VARIABLES config, mel_power, ret, run

vars == <<config, mel_power, ret, run>>

(***************************************************************************)
(* Bounds of the model                                                     *)
(***************************************************************************)
MaxFrames == 5          \* longest clip whose centroid moves
MaxFlatFrames == 7      \* longest clip with a flat spectral shape
MaxLevel == 2           \* power levels 0..MaxLevel: -80 dB .. -80+10*MaxLevel dB
MaxNumPeaks == 3        \* largest num_peaks argument tried
MaxRhythmFrames == 22   \* length of the clips made of isolated loud frames
MaxLoudFrames == 4      \* most loud frames in such a clip
MaxAllFrames == 4       \* longest clip given to extract_all_features
MaxFiles == 9           \* most clips in a batch run
MaxBatchSize == 3       \* largest mel_batch_size / llm_batch_size
MaxCheckpointEvery == 5 \* largest checkpoint_every
MaxFailing == 1         \* most clips whose processing raises
MaxResumed == 2         \* most results in the checkpoint a run resumes from
MaxMinGap == 3          \* largest min_gap given to _detect_changepoints
MaxCurveLen == 3        \* longest curve given to _classify_envelope_shape directly
MaxPitchFrames == 14    \* longest centroid curve given to _classify_pitch_movement
MaxSegmentCount == 4    \* longest list given to the segment fusion and capping
MaxEventFrames == 13    \* length of the clips that are level but for a few frames

(***************************************************************************)
(* Arithmetic helpers                                                      *)
(***************************************************************************)
Abs(x) == IF x < 0 THEN -x ELSE x

Sign(x) == IF x > 0 THEN 1 ELSE IF x < 0 THEN -1 ELSE 0

Max2(a, b) == IF a >= b THEN a ELSE b

RECURSIVE Pow10(_)
Pow10(k) == IF k = 0 THEN 1 ELSE 10 * Pow10(k - 1)

RECURSIVE GCD(_, _)
GCD(a, b) == IF b = 0 THEN a ELSE GCD(b, a % b)

RECURSIVE Sum(_)
Sum(s) == IF Len(s) = 0 THEN 0 ELSE Head(s) + Sum(Tail(s))

SeqMax(s) == CHOOSE m \in {s[i] : i \in 1..Len(s)} : \A i \in 1..Len(s) : s[i] <= m

SeqMin(s) == CHOOSE m \in {s[i] : i \in 1..Len(s)} : \A i \in 1..Len(s) : s[i] >= m

\* a sequence given as a function, evaluated once into a tuple
AsTuple(f) == f \o <<>>

\* s[a:b] of Python, with 0-based a (inclusive) and b (exclusive)
Slice(s, a, b) == AsTuple([i \in 1..(b - a) |-> s[a + i]])

\* torch.diff
Diff(s) == AsTuple([i \in 1..(Len(s) - 1) |-> s[i + 1] - s[i]])

\* round(n / d) for d > 0, half to even
RoundHalfEven(n, d) ==
    LET q == n \div d
        r == n % d
    IN  IF 2 * r < d THEN q
        ELSE IF 2 * r > d THEN q + 1
        ELSE IF q % 2 = 0 THEN q ELSE q + 1

\* the largest t in lo..hi with (2t - 1)^2 * d <= 400 * n, by bisection
RECURSIVE SqrtSearch(_, _, _, _)
SqrtSearch(lo, hi, n, d) ==
    IF lo >= hi THEN lo
    ELSE LET mid == (lo + hi + 1) \div 2
         IN  IF (2 * mid - 1) * (2 * mid - 1) * d <= 400 * n
             THEN SqrtSearch(mid, hi, n, d)
             ELSE SqrtSearch(lo, mid - 1, n, d)

\* round(10 * sqrt(n / d)) for n >= 0, d > 0; hi bounds the result
RoundSqrtTenths(n, d, hi) == SqrtSearch(0, hi, n, d)

NaN == <<0, 0>>

IsNaN(a) == a[2] = 0

Rat(n, d) == IF d = 0 THEN NaN ELSE IF d < 0 THEN <<-n, -d>> ELSE <<n, d>>

RatLt(a, b) == ~IsNaN(a) /\ ~IsNaN(b) /\ a[1] * b[2] < b[1] * a[2]

RatEq(a, b) == ~IsNaN(a) /\ ~IsNaN(b) /\ a[1] * b[2] = b[1] * a[2]

RatAdd(a, b) == IF IsNaN(a) \/ IsNaN(b) THEN NaN
                ELSE <<a[1] * b[2] + b[1] * a[2], a[2] * b[2]>>

RatSub(a, b) == IF IsNaN(a) \/ IsNaN(b) THEN NaN
                ELSE <<a[1] * b[2] - b[1] * a[2], a[2] * b[2]>>

\* a / b for b > 0
RatDiv(a, b) == IF IsNaN(a) \/ IsNaN(b) \/ b[1] <= 0 THEN NaN
                ELSE <<a[1] * b[2], a[2] * b[1]>>

(***************************************************************************)
(* Program constants                                                       *)
(***************************************************************************)
NMels == 64                 \* bands of the mel-spectrogram
FloorDb == -80              \* 10*log10(eps) for eps = 1e-8
SilenceThresholdDb == -70   \* default silence_threshold_db

\* (sample_rate, hop_length) pairs AUDIO_CONFIG may hold
AudioConfigs ==
    { [sample_rate |-> 16000, hop_length |-> 4000],
      [sample_rate |-> 16000, hop_length |-> 2000] }

\* frames per second as a reduced fraction RateNum / RateDen
RateNum(cfg) == cfg.sample_rate \div GCD(cfg.sample_rate, cfg.hop_length)

RateDen(cfg) == cfg.hop_length \div GCD(cfg.sample_rate, cfg.hop_length)

(***************************************************************************)
(* The input: mel_power as a sequence of frames [k, c]                     *)
(***************************************************************************)
MidBin2 == NMels - 1        \* twice the centroid of a frame with equal bands

PitchBins2 == {40, 80}      \* twice the centroids tried for an active frame

Levels == 0..MaxLevel

\* frames whose power sits around one bin; a frame of zero power is flat
FrameSet ==
    {[k |-> 0, c |-> MidBin2]} \cup
    {[k |-> l, c |-> b] : l \in Levels \ {0}, b \in PitchBins2}

\* frames with the same power in every band
FlatFrameSet == {[k |-> l, c |-> MidBin2] : l \in Levels}

MelInputs ==
    UNION {[1..n -> FrameSet] : n \in 1..MaxFrames} \cup
    UNION {[1..n -> FlatFrameSet] : n \in 1..MaxFlatFrames}

NumFrames(mel) == Len(mel)

\* torch.mean(mel_power, dim=0) + eps, in units of eps
PowerOverTime(mel) == AsTuple([i \in 1..Len(mel) |-> Pow10(mel[i].k)])

\* 10 * log10(power_over_time), in dB
EnergyDbOverTime(mel) == AsTuple([i \in 1..Len(mel) |-> FloorDb + 10 * mel[i].k])

\* per-frame spectral centroid, in half bins
CentroidOverTime(mel) == AsTuple([i \in 1..Len(mel) |-> mel[i].c])

\* the caller holds the matrix and has not called the extractor yet
Ready == ret.op = "none"

\* no batch run is under way
NoRun == [pc |-> "idle"]

(***************************************************************************)
(* Least-squares sums of a curve y over the indices 0..n-1, each scaled by *)
(* n to stay in the integers                                               *)
(***************************************************************************)
\* n * sum((i - mean(i)) * (y - mean(y)))
CovN(y) ==
    LET n == Len(y)
    IN  n * Sum([i \in 1..n |-> (i - 1) * y[i]]) - Sum([i \in 1..n |-> i - 1]) * Sum(y)

\* n * sum((i - mean(i))^2)
VarIdxN(n) == n * Sum([i \in 1..n |-> (i - 1) * (i - 1)])
              - Sum([i \in 1..n |-> i - 1]) * Sum([i \in 1..n |-> i - 1])

\* n * sum((y - mean(y))^2); torch.std(y)^2 is DevN(y) / (n * (n - 1))
DevN(y) ==
    LET n == Len(y)
    IN  n * Sum([i \in 1..n |-> y[i] * y[i]]) - Sum(y) * Sum(y)

\* sum(abs(diff(sign(s))))
SignChanges(s) ==
    LET sg == [i \in 1..Len(s) |-> Sign(s[i])]
        d == Diff(sg)
    IN  Sum([i \in 1..Len(d) |-> Abs(d[i])])

(***************************************************************************)
(* detect_silence                                                          *)
(***************************************************************************)
IsSilent_NonStrict(mel, threshold_db) ==
    [i \in 1..Len(mel) |-> EnergyDbOverTime(mel)[i] <= threshold_db]

IsSilent(mel, threshold_db) ==
    [i \in 1..Len(mel) |-> EnergyDbOverTime(mel)[i] < threshold_db]

NumActiveRegions_TransitionsOnly(is_active) ==
    LET transitions == Diff(is_active)
    IN  Cardinality({i \in 1..Len(transitions) : transitions[i] > 0})

\* number of silent -> active transitions, plus 1 if frame 0 is active
NumActiveRegions(is_active) ==
    LET transitions == Diff(is_active)
        positive == Cardinality({i \in 1..Len(transitions) : transitions[i] > 0})
    IN  IF is_active[1] = 1 THEN positive + 1 ELSE positive

DetectSilenceResult(mel, threshold_db) ==
    LET is_silent == IsSilent(mel, threshold_db)
        total_frames == Len(mel)
        num_silent_frames == Cardinality({i \in 1..total_frames : is_silent[i]})
        silence_percentage ==
            IF total_frames > 0 THEN Rat(num_silent_frames * 100, total_frames)
            ELSE <<0, 1>>
        active_time_percentage == RatSub(<<100, 1>>, silence_percentage)
        is_active == [i \in 1..total_frames |-> IF is_silent[i] THEN 0 ELSE 1]
    IN  [op |-> "detect_silence",
         raised |-> "none",
         silence_percentage |-> silence_percentage,
         num_silent_frames |-> num_silent_frames,
         num_active_regions |-> NumActiveRegions(is_active),
         active_time_percentage |-> active_time_percentage]

DetectSilence ==
    /\ Ready
    /\ ret' = DetectSilenceResult(mel_power, SilenceThresholdDb)
    /\ UNCHANGED <<config, mel_power, run>>

(***************************************************************************)
(* extract_temporal_dynamics                                               *)
(***************************************************************************)
ExtractTemporalDynamicsResult(mel) ==
    LET power_over_time == PowerOverTime(mel)
        frame_diff == Diff(power_over_time)
        abs_diff == [i \in 1..Len(frame_diff) |-> Abs(frame_diff[i])]
        positive_diff == [i \in 1..Len(frame_diff) |-> Max2(frame_diff[i], 0)]
        mean_power == Rat(Sum(power_over_time), Len(power_over_time))
        \* torch.mean of an empty tensor is NaN
        stationarity == RatDiv(Rat(Sum(abs_diff), Len(frame_diff)), mean_power)
        onset_strength == RatDiv(Rat(Sum(positive_diff), Len(frame_diff)), mean_power)
    IN  [op |-> "extract_temporal_dynamics",
         raised |-> "none",
         stationarity |-> stationarity,
         onset_strength |-> onset_strength]

ExtractTemporalDynamics ==
    /\ Ready
    /\ ret' = ExtractTemporalDynamicsResult(mel_power)
    /\ UNCHANGED <<config, mel_power, run>>

(***************************************************************************)
(* detect_salient_events                                                   *)
(*   min_prominence_ratio in per cent, min_inter_event_time in hundredths  *)
(*   of a second; peaks are 0-based frame indices                          *)
(***************************************************************************)
ProminenceWindow == 10

\* torch.mean(mel_power, dim=0) of frame i (0-based), in units of eps
LinearPower(mel, i) == Pow10(mel[i + 1].k) - 1

\* int(min_inter_event_time * sample_rate / hop_length)
MinFrameSpacing(cfg, min_inter_event_time) ==
    (min_inter_event_time * cfg.sample_rate) \div (100 * cfg.hop_length)

Prominence(mel, i) ==
    LET n == Len(mel)
        lo == Max2(0, i - ProminenceWindow)
        hi == IF n < i + ProminenceWindow + 1 THEN n ELSE i + ProminenceWindow + 1
        left_min == SeqMin([j \in 1..(i - lo) |-> LinearPower(mel, lo + j - 1)])
        right_min == SeqMin([j \in 1..(hi - i - 1) |-> LinearPower(mel, i + j)])
    IN  LinearPower(mel, i) - Max2(left_min, right_min)

\* the scan with ">=" against the neighbours and over every frame that has
\* a neighbour on each side or at the start of the clip
AcceptedPeaks_PlateausAndFirstFrame(mel, min_prominence_ratio) ==
    LET n == Len(mel)
        power == [i \in 1..n |-> LinearPower(mel, i - 1)]
        power_range == SeqMax(power) - SeqMin(power)
    IN  {i \in 0..(n - 2) :
            /\ i > 0 => LinearPower(mel, i) >= LinearPower(mel, i - 1)
            /\ LinearPower(mel, i) >= LinearPower(mel, i + 1)
            /\ i > 0 => 100 * Prominence(mel, i) >= min_prominence_ratio * power_range}

\* strict local maxima of the interior frames whose prominence passes
AcceptedPeaks(mel, min_prominence_ratio) ==
    LET n == Len(mel)
        power == [i \in 1..n |-> LinearPower(mel, i - 1)]
        power_range == SeqMax(power) - SeqMin(power)
    IN  {i \in 1..(n - 2) :
            /\ LinearPower(mel, i) > LinearPower(mel, i - 1)
            /\ LinearPower(mel, i) > LinearPower(mel, i + 1)
            /\ 100 * Prominence(mel, i) >= min_prominence_ratio * power_range}

\* peaks.sort(key=magnitude, reverse=True): stable, equal magnitudes keep
\* their order of detection (ascending index)
RECURSIVE SortByMagnitude(_, _)
SortByMagnitude(mel, peaks) ==
    IF peaks = {} THEN <<>>
    ELSE LET first == CHOOSE p \in peaks : \A q \in peaks :
                        \/ LinearPower(mel, p) > LinearPower(mel, q)
                        \/ LinearPower(mel, p) = LinearPower(mel, q) /\ p <= q
         IN  <<first>> \o SortByMagnitude(mel, peaks \ {first})

\* the greedy spacing filter: the test of num_peaks comes after the append
RECURSIVE FilterPeaks(_, _, _, _)
FilterPeaks(sorted, filtered, min_frame_spacing, num_peaks) ==
    IF Len(sorted) = 0 THEN filtered
    ELSE LET idx == Head(sorted)
             too_close == \E p \in filtered : Abs(idx - p) < min_frame_spacing
             kept == IF too_close THEN filtered ELSE filtered \cup {idx}
         IN  IF Cardinality(kept) >= num_peaks THEN kept
             ELSE FilterPeaks(Tail(sorted), kept, min_frame_spacing, num_peaks)

\* filtered_peaks.sort(key=index)
RECURSIVE SortByTime(_)
SortByTime(peaks) ==
    IF peaks = {} THEN <<>>
    ELSE LET first == CHOOSE p \in peaks : \A q \in peaks : p <= q
         IN  <<first>> \o SortByTime(peaks \ {first})

\* detect_salient_events without the sort by magnitude: the spacing filter
\* takes the peaks in their order of detection
DetectSalientEventsResult_EarliestFirst(mel, cfg, num_peaks, min_prominence_ratio, min_inter_event_time) ==
    LET peaks == SortByTime(AcceptedPeaks(mel, min_prominence_ratio))
        filtered_peaks ==
            SortByTime(FilterPeaks(peaks, {},
                                   MinFrameSpacing(cfg, min_inter_event_time), num_peaks))
    IN  [op |-> "detect_salient_events",
         raised |-> "none",
         args |-> [num_peaks |-> num_peaks,
                   min_prominence_ratio |-> min_prominence_ratio,
                   min_inter_event_time |-> min_inter_event_time],
         num_peaks |-> Len(filtered_peaks),
         peak_times |-> [i \in 1..Len(filtered_peaks) |-> filtered_peaks[i] * cfg.hop_length],
         peak_magnitudes |-> [i \in 1..Len(filtered_peaks) |->
                                 EnergyDbOverTime(mel)[filtered_peaks[i] + 1]]]

DetectSalientEventsResult(mel, cfg, num_peaks, min_prominence_ratio, min_inter_event_time) ==
    LET peaks == SortByMagnitude(mel, AcceptedPeaks(mel, min_prominence_ratio))
        filtered_peaks ==
            SortByTime(FilterPeaks(peaks, {},
                                   MinFrameSpacing(cfg, min_inter_event_time), num_peaks))
    IN  [op |-> "detect_salient_events",
         raised |-> "none",
         args |-> [num_peaks |-> num_peaks,
                   min_prominence_ratio |-> min_prominence_ratio,
                   min_inter_event_time |-> min_inter_event_time],
         num_peaks |-> Len(filtered_peaks),
         \* idx * hop_length / sample_rate, kept as the numerator idx * hop_length
         peak_times |-> [i \in 1..Len(filtered_peaks) |-> filtered_peaks[i] * cfg.hop_length],
         \* 10 * log10(magnitude + eps)
         peak_magnitudes |-> [i \in 1..Len(filtered_peaks) |->
                                 EnergyDbOverTime(mel)[filtered_peaks[i] + 1]]]

DefaultNumPeaks == 3

DefaultMinProminenceRatio == 15

DefaultMinInterEventTime == 20

MinInterEventTimes == {20, 80}

\* a call of detect_salient_events with min_prominence_ratio (in hundredths)
\* among the given ones
DetectSalientEventsWith(min_prominence_ratios) ==
    /\ Ready
    /\ \E num_peaks \in 0..MaxNumPeaks, min_inter_event_time \in MinInterEventTimes,
          min_prominence_ratio \in min_prominence_ratios :
          ret' = DetectSalientEventsResult(mel_power, config, num_peaks,
                                           min_prominence_ratio, min_inter_event_time)
    /\ UNCHANGED <<config, mel_power, run>>

DetectSalientEvents == DetectSalientEventsWith({DefaultMinProminenceRatio})

(***************************************************************************)
(* extract_temporal_trajectories and its classifiers                       *)
(***************************************************************************)
NumTrajectoryPoints == 10

\* (energy_db - min) / clamp(max - min, eps): numerators d over one
\* denominator r; a flat curve has every numerator 0
EnergyNormalized(mel) ==
    LET e == EnergyDbOverTime(mel)
        lo == SeqMin(e)
        hi == SeqMax(e)
    IN  [d |-> [i \in 1..Len(e) |-> e[i] - lo],
         r |-> IF hi = lo THEN 1 ELSE hi - lo]

\* the regression slope of the normalised curve over x = linspace(0, 1, n);
\* the denominator is not clamped: one frame gives 0 / 0
EnvelopeSlope(energy_normalized) ==
    LET n == Len(energy_normalized.d)
    IN  Rat((n - 1) * CovN(energy_normalized.d), VarIdxN(n) * energy_normalized.r)

\* the standard deviation of the curve is 0.25 in exact arithmetic
VariationTie(energy_normalized) ==
    LET d == energy_normalized.d
        r == energy_normalized.r
        n == Len(d)
    IN  n >= 2 /\ 16 * DevN(d) = n * (n - 1) * r * r

\* |slope| is 0.3 in exact arithmetic
EnvelopeSlopeTie(energy_normalized) ==
    LET slope == EnvelopeSlope(energy_normalized)
    IN  ~IsNaN(slope) /\ 10 * Abs(slope[1]) = 3 * slope[2]

\* the dtype of the tensor given to the extractor
Dtypes == {"float32", "float64"}

\* what abs(slope.item()) can be, next to the double 0.3, where the exact
\* value is on it: a float32 slope is never equal to the double 0.3, a
\* float64 slope can be (the curve [0.0, 0.3] gives 0.15 / 0.5)
SlopeTieOutcomes(dtype) ==
    IF dtype = "float64" THEN {"below", "equal", "above"} ELSE {"below", "above"}

\* the outcomes the float comparisons of _classify_envelope_shape can have
\* on a curve where the exact value is on the threshold
EnvelopeTieOutcomes(energy_normalized, dtype) ==
    LET slopes == IF EnvelopeSlopeTie(energy_normalized)
                  THEN SlopeTieOutcomes(dtype) ELSE {"exact"}
        variations == IF VariationTie(energy_normalized) THEN BOOLEAN ELSE {FALSE}
    IN  {[envelope_slope |-> a, envelope_variation |-> b] : a \in slopes, b \in variations}

\* _classify_envelope_shape; ties.envelope_variation says whether the float
\* std comes out above 0.25 and ties.envelope_slope where the float |slope|
\* comes out next to 0.3 when the exact value is on the threshold
ClassifyEnvelopeShape(energy_normalized, ties) ==
    LET d == energy_normalized.d
        r == energy_normalized.r
        n == Len(d)
        slope == EnvelopeSlope(energy_normalized)
        \* torch.std of one value is NaN
        high_variation ==
            \/ n >= 2 /\ 16 * DevN(d) > n * (n - 1) * r * r
            \/ VariationTie(energy_normalized) /\ ties.envelope_variation
        slope_tie_above == EnvelopeSlopeTie(energy_normalized) /\ ties.envelope_slope = "above"
        slope_tie_below == EnvelopeSlopeTie(energy_normalized) /\ ties.envelope_slope = "below"
        first_third == Slice(d, 0, n \div 3)
        last_third == Slice(d, (n * 2) \div 3, n)
        first_half == Slice(d, 0, n \div 2)
        n1 == Len(first_third)
        n3 == Len(last_third)
        is_attack_decay ==
            /\ n1 > 0
            /\ 2 * Sum(first_third) < n1 * r
            /\ 10 * SeqMax(first_half) > 7 * r
            /\ 5 * n1 * Sum(last_third) < 5 * n3 * Sum(first_third) + n1 * n3 * r
    IN  IF is_attack_decay THEN "attack-decay"
        ELSE IF high_variation
             THEN IF SignChanges(Diff(d)) > 6 THEN "pulsating" ELSE "erratic"
        ELSE IF ~IsNaN(slope) /\ (10 * Abs(slope[1]) < 3 * slope[2] \/ slope_tie_below)
             THEN "steady"
        ELSE IF ~IsNaN(slope) /\ (10 * slope[1] > 3 * slope[2]
                                  \/ (slope[1] > 0 /\ slope_tie_above))
             THEN "crescendo"
        ELSE "decrescendo"

\* torch.max(torch.abs(torch.diff(centroid))) raises on a single frame
PitchMovementRaises(centroid) == Len(centroid) < 2

\* centroid - (mean_y + slope * (x - mean_x)), times the positive factor
\* n * VarIdxN(n)
Detrended(centroid) ==
    LET n == Len(centroid)
        cov == CovN(centroid)
        var == VarIdxN(n)
        s == Sum(centroid)
        sx == Sum([j \in 1..n |-> j - 1])
    IN  AsTuple([i \in 1..n |-> n * var * centroid[i] - var * s - cov * (n * (i - 1) - sx)])

\* _classify_pitch_movement, for a centroid curve in half bins
ClassifyPitchMovement(centroid) ==
    LET n == Len(centroid)
        cov == CovN(centroid)
        var == VarIdxN(n)
        dev == DevN(centroid)
        diff == Diff(centroid)
        max_jump == SeqMax([i \in 1..Len(diff) |-> Abs(diff[i])])
        detrended == Detrended(centroid)
    IN  IF max_jump > 2 * 10 THEN "jumping"
        ELSE IF dev > 4 * 64 * n * (n - 1)
             THEN IF SignChanges(detrended) > 6 THEN "wobbling" ELSE "complex"
        ELSE IF dev < 4 * 9 * n * (n - 1) THEN "stable"
        ELSE IF (n - 1) * Abs(cov) > 5 * 2 * var
             THEN IF cov > 0 THEN "rising" ELSE "falling"
        ELSE "stable"

\* the indices i (0-based) with positive_diff[i] > mean + 2 * std, given
\* m = len, s = sum and dev = DevN of positive_diff
AboveOnsetThreshold(positive_diff, m, s, dev) ==
    {i \in 0..(m - 1) :
        /\ m >= 2
        /\ m * positive_diff[i + 1] - s > 0
        /\ (m * positive_diff[i + 1] - s) * (m * positive_diff[i + 1] - s) * (m - 1)
              > 4 * m * dev}

\* frames of positive_diff above mean + 2 * std (0-based); std of fewer
\* than two values is NaN and nothing is above NaN
OnsetFrames(mel) ==
    LET frame_diff == Diff(PowerOverTime(mel))
        positive_diff == AsTuple([i \in 1..Len(frame_diff) |-> Max2(frame_diff[i], 0)])
    IN  AboveOnsetThreshold(positive_diff, Len(positive_diff),
                            Sum(positive_diff), DevN(positive_diff))

\* a regularity score a / (b + sqrt(cv2)), cv2 a rational
Regularity(a, b, cv2) == [a |-> a, b |-> b, cv2 |-> cv2]

RegularityZero == Regularity(0, 1, <<0, 1>>)

RegularityHalf == Regularity(1, 2, <<0, 1>>)

\* regularity > 0.7
RegularityAbove07(g) ==
    /\ 10 * g.a - 7 * g.b > 0
    /\ 49 * g.cv2[1] < (10 * g.a - 7 * g.b) * (10 * g.a - 7 * g.b) * g.cv2[2]

\* |slope| = 0.3 * mean(iois) in exact arithmetic, slope not 0: the float32
\* mean and the double product decide the comparison either way
SlopeTie(iois) ==
    /\ CovN(iois) # 0
    /\ 10 * Len(iois) * Abs(CovN(iois)) = 3 * VarIdxN(Len(iois)) * Sum(iois)

\* abs(slope) > mean_ioi * 0.3; tie_exceeds is the outcome at a tie
SlopeIsSignificant(iois, tie_exceeds) ==
    \/ 10 * Len(iois) * Abs(CovN(iois)) > 3 * VarIdxN(Len(iois)) * Sum(iois)
    \/ SlopeTie(iois) /\ tie_exceeds

\* _classify_rhythm_type
ClassifyRhythmType(iois, regularity, num_events, tie_exceeds) ==
    LET l == Len(iois)
        cov == CovN(iois)
    IN  IF num_events <= 2 THEN "isolated_events"
        ELSE IF l >= 3 /\ SlopeIsSignificant(iois, tie_exceeds)
             THEN IF cov < 0 THEN "accelerating" ELSE "decelerating"
        ELSE IF RegularityAbove07(regularity) THEN "regular"
        ELSE "irregular"

\* torch.linspace(0, n - 1, num_points).long(), 0-based frames
TrajectoryIndices(n, num_points) ==
    [j \in 1..num_points |-> ((j - 1) * (n - 1)) \div (num_points - 1)]

RhythmRegularity_SingleIoiRegular(onsets) ==
    LET iois == Diff(onsets)
        l == Len(iois)
    IN  IF Len(onsets) > 1
        THEN IF l > 1
             THEN Regularity(1, 1, Rat(l * DevN(iois), (l - 1) * Sum(iois) * Sum(iois)))
             ELSE Regularity(1, 1, <<0, 1>>)
        ELSE RegularityZero

\* rhythm_regularity for the sorted onset frames
RhythmRegularity(onsets) ==
    LET iois == Diff(onsets)
        l == Len(iois)
    IN  IF Len(onsets) > 1
        THEN IF l > 1
             \* 1 / (1 + std / mean), with (std / mean)^2 =
             \* DevN / (l * (l - 1)) / (sum / l)^2
             THEN Regularity(1, 1, Rat(l * DevN(iois), (l - 1) * Sum(iois) * Sum(iois)))
             ELSE RegularityHalf
        ELSE RegularityZero

RhythmType_OneOnsetContinuous(onsets, tie_exceeds) ==
    IF Len(onsets) > 1
    THEN ClassifyRhythmType(Diff(onsets), RhythmRegularity(onsets), Len(onsets), tie_exceeds)
    ELSE IF Len(onsets) <= 1 THEN "continuous" ELSE "isolated_events"

\* rhythm_type for the sorted onset frames
RhythmType(onsets, tie_exceeds) ==
    IF Len(onsets) > 1
    THEN ClassifyRhythmType(Diff(onsets), RhythmRegularity(onsets), Len(onsets), tie_exceeds)
    ELSE IF Len(onsets) = 0 THEN "continuous" ELSE "isolated_events"

ExtractTemporalTrajectoriesResult(mel, num_trajectory_points, ties) ==
    LET energy_normalized == EnergyNormalized(mel)
        centroid_over_time == CentroidOverTime(mel)
        indices == TrajectoryIndices(Len(mel), num_trajectory_points)
        onsets == SortByTime(OnsetFrames(mel))
        rhythm_regularity == RhythmRegularity(onsets)
        rhythm_type == RhythmType(onsets, ties.rhythm_slope)
    IN  IF PitchMovementRaises(centroid_over_time)
        THEN [op |-> "extract_temporal_trajectories",
              raised |-> "RuntimeError in _classify_pitch_movement"]
        ELSE [op |-> "extract_temporal_trajectories",
              raised |-> "none",
              envelope_shape |-> ClassifyEnvelopeShape(energy_normalized, ties),
              envelope_trajectory |->
                  [j \in 1..num_trajectory_points |->
                      Rat(energy_normalized.d[indices[j] + 1], energy_normalized.r)],
              pitch_movement |-> ClassifyPitchMovement(centroid_over_time),
              pitch_trajectory |->
                  [j \in 1..num_trajectory_points |->
                      Rat(centroid_over_time[indices[j] + 1], 2)],
              rhythm_regularity |-> rhythm_regularity,
              rhythm_type |-> rhythm_type]

\* the outcomes the float comparisons can have on mel where the exact
\* value is on the threshold
TieOutcomes(mel) ==
    LET iois == Diff(SortByTime(OnsetFrames(mel)))
        rhythms == IF Len(iois) >= 3 /\ SlopeTie(iois) THEN BOOLEAN ELSE {FALSE}
        envelopes == UNION {EnvelopeTieOutcomes(EnergyNormalized(mel), dtype) : dtype \in Dtypes}
    IN  {[rhythm_slope |-> a,
          envelope_slope |-> e.envelope_slope,
          envelope_variation |-> e.envelope_variation] : a \in rhythms, e \in envelopes}

ExtractTemporalTrajectories ==
    /\ Ready
    /\ \E ties \in TieOutcomes(mel_power) :
           ret' = ExtractTemporalTrajectoriesResult(mel_power, NumTrajectoryPoints, ties)
    /\ UNCHANGED <<config, mel_power, run>>

\* _classify_envelope_shape called on the normalised curve of the clip
\* a call of _classify_envelope_shape on one of the given curves
ClassifyEnvelopeShapeOn(curves) ==
    /\ Ready
    /\ \E energy_normalized \in curves, dtype \in Dtypes :
          \E ties \in EnvelopeTieOutcomes(energy_normalized, dtype) :
             ret' = [op |-> "_classify_envelope_shape",
                     raised |-> "none",
                     args |-> [energy_normalized |-> energy_normalized,
                               dtype |-> dtype,
                               ties |-> ties],
                     envelope_shape |-> ClassifyEnvelopeShape(energy_normalized, ties)]
    /\ UNCHANGED <<config, mel_power, run>>

CallClassifyEnvelopeShape ==
    ClassifyEnvelopeShapeOn({EnergyNormalized(mel_power)})

\* a call of _classify_pitch_movement on one of the given centroid curves
ClassifyPitchMovementOn(curves) ==
    /\ Ready
    /\ \E centroid_over_time \in curves :
          ret' = IF PitchMovementRaises(centroid_over_time)
                 THEN [op |-> "_classify_pitch_movement",
                       raised |-> "RuntimeError",
                       args |-> [centroid_over_time |-> centroid_over_time]]
                 ELSE [op |-> "_classify_pitch_movement",
                       raised |-> "none",
                       args |-> [centroid_over_time |-> centroid_over_time],
                       pitch_movement |-> ClassifyPitchMovement(centroid_over_time)]
    /\ UNCHANGED <<config, mel_power, run>>

(***************************************************************************)
(* extract_temporal_segments and its helpers                               *)
(*   durations in hundredths of a second, thresholds in tenths;            *)
(*   rounded fields: times in hundredths, dB and bins in tenths,           *)
(*   slope_mel_per_sec in hundredths, std as <<tenths, 1>> or NaN          *)
(***************************************************************************)
SmoothWindow == 5

DefaultMinSegmentDuration == 50

DefaultMaxSegments == 8

DefaultLoudnessChangeThreshold == 20

DefaultPitchChangeThreshold == 20

FuseMeanDbThreshold == 50

\* int(min_segment_duration / frame_duration)
MinSegmentFrames(cfg, min_segment_duration) ==
    (min_segment_duration * cfg.sample_rate) \div (100 * cfg.hop_length)

\* round(frame * frame_duration, 2)
RoundedTime(cfg, frame) == RoundHalfEven(frame * RateDen(cfg) * 100, RateNum(cfg))

\* avg_pool1d(kernel_size=window, stride=1, padding=window // 2) times window:
\* the padding counts as zeros and the divisor is always window
AvgPoolSum(s, window) ==
    AsTuple([i \in 1..Len(s) |->
        Sum([j \in 1..window |->
            LET pos == i - (window \div 2) + j - 1
            IN  IF pos >= 1 /\ pos <= Len(s) THEN s[pos] ELSE 0])])

\* avg_pool1d rejects an empty input, and squeeze() of a one-element result
\* is 0-dimensional, which torch.diff rejects
DetectChangepointsRaises(energy_db) == Len(energy_db) < 3

\* the scan that enforces the minimum gap, over the sorted candidates
RECURSIVE FilterMinGap(_, _, _)
FilterMinGap(candidates, filtered, min_gap) ==
    IF Len(candidates) = 0 THEN filtered
    ELSE LET cp == Head(candidates)
         IN  IF cp - filtered[Len(filtered)] >= min_gap
             THEN FilterMinGap(Tail(candidates), Append(filtered, cp), min_gap)
             ELSE FilterMinGap(Tail(candidates), filtered, min_gap)

\* _detect_changepoints: 0-based frame indices, centroid in half bins
DetectChangepoints(energy_db, centroid, loudness_threshold, pitch_threshold, min_gap) ==
    LET n == Len(energy_db)
        energy_diff_smooth == AvgPoolSum(Diff(energy_db), SmoothWindow)
        centroid_diff_smooth == AvgPoolSum(Diff(centroid), SmoothWindow)
        energy_changepoints ==
            {f \in 1..(n - 2) :
                10 * Abs(energy_diff_smooth[f + 1] - energy_diff_smooth[f])
                    > SmoothWindow * loudness_threshold}
        pitch_changepoints ==
            {f \in 1..(n - 2) :
                10 * Abs(centroid_diff_smooth[f + 1] - centroid_diff_smooth[f])
                    > 2 * SmoothWindow * pitch_threshold}
        all_changepoints == SortByTime(energy_changepoints \cup pitch_changepoints)
        filtered == FilterMinGap(all_changepoints, <<0>>, min_gap)
    IN  IF filtered[Len(filtered)] # n - 1 THEN Append(filtered, n - 1) ELSE filtered

\* _detect_changepoints called on the curves of the clip
CallDetectChangepoints ==
    /\ Ready
    /\ \E min_gap \in 1..MaxMinGap :
          ret' = IF DetectChangepointsRaises(EnergyDbOverTime(mel_power))
                 THEN [op |-> "_detect_changepoints",
                       raised |-> "RuntimeError in _detect_changepoints",
                       args |-> [min_gap |-> min_gap]]
                 ELSE [op |-> "_detect_changepoints",
                       raised |-> "none",
                       args |-> [min_gap |-> min_gap],
                       changepoints |->
                           DetectChangepoints(EnergyDbOverTime(mel_power),
                               CentroidOverTime(mel_power),
                               DefaultLoudnessChangeThreshold,
                               DefaultPitchChangeThreshold, min_gap)]
    /\ UNCHANGED <<config, mel_power, run>>

\* index of the first maximum, 0-based
ArgMax(s) == CHOOSE i \in 0..(Len(s) - 1) :
                /\ s[i + 1] = SeqMax(s)
                /\ \A j \in 0..(i - 1) : s[j + 1] < s[i + 1]

\* _compute_slope over x = linspace(0, duration, len): units per second as
\* a rational; the clamped denominator makes a single frame give 0
ComputeSlope(cfg, y) ==
    LET n == Len(y)
    IN  IF n < 2 THEN <<0, 1>>
        ELSE Rat(RateNum(cfg) * (n - 1) * CovN(y), RateDen(cfg) * n * VarIdxN(n))

\* round(torch.std(y) / scale, 1) in tenths
RoundedStd(y, scale) ==
    LET n == Len(y)
    IN  IF n < 2 THEN NaN
        ELSE <<RoundSqrtTenths(DevN(y), scale * scale * n * (n - 1),
                               10 * (SeqMax(y) - SeqMin(y)) + 1), 1>>

\* _classify_segment_loudness; std < t is DevN < t^2 * n * (n - 1)
ClassifySegmentLoudness(slope, energy) ==
    LET n == Len(energy)
        max_idx == ArgMax(energy)
        is_centered_peak == n < 5 * max_idx /\ 5 * max_idx < 4 * n
        peak_prominent == n * SeqMax(energy) - Sum(energy) > 10 * n
        dev == DevN(energy)
    IN  IF peak_prominent /\ is_centered_peak THEN "surge"
        ELSE IF Abs(slope[1]) < slope[2] /\ n >= 2 /\ dev < 9 * n * (n - 1)
             THEN "steady"
        ELSE IF slope[1] > 2 * slope[2] THEN "crescendo"
        ELSE IF slope[1] < -2 * slope[2] THEN "decrescendo"
        ELSE IF n >= 2 /\ dev > 25 * n * (n - 1) THEN "varying"
        ELSE "steady"

\* _classify_segment_pitch, for slope in bins per second and a centroid
\* curve in half bins
ClassifySegmentPitch(slope, centroid) ==
    LET n == Len(centroid)
        dev == DevN(centroid)
    IN  IF 2 * Abs(slope[1]) < slope[2] /\ n >= 2 /\ dev < 4 * 4 * n * (n - 1)
        THEN "stable"
        ELSE IF slope[1] > slope[2] THEN "rising"
        ELSE IF slope[1] < -slope[2] THEN "falling"
        ELSE IF n >= 2 /\ dev > 4 * 16 * n * (n - 1) THEN "varying"
        ELSE "stable"

\* _compute_segment_statistics
ComputeSegmentStatistics(cfg, energy_db, centroid, start_frame, end_frame) ==
    LET n == Len(energy_db)
        loudness_slope == ComputeSlope(cfg, energy_db)
        pitch_slope2 == ComputeSlope(cfg, centroid)
        pitch_slope == <<pitch_slope2[1], 2 * pitch_slope2[2]>>
    IN  [start_time |-> RoundedTime(cfg, start_frame),
         end_time |-> RoundedTime(cfg, end_frame),
         duration |-> RoundedTime(cfg, end_frame - start_frame),
         loudness |->
            [mean_db |-> RoundHalfEven(10 * Sum(energy_db), n),
             start_db |-> 10 * energy_db[1],
             end_db |-> 10 * energy_db[n],
             slope_db_per_sec |-> RoundHalfEven(10 * loudness_slope[1], loudness_slope[2]),
             std_db |-> RoundedStd(energy_db, 1),
             classification |-> ClassifySegmentLoudness(loudness_slope, energy_db)],
         pitch |->
            [mean_mel_bin |-> RoundHalfEven(10 * Sum(centroid), 2 * n),
             start_mel_bin |-> RoundHalfEven(10 * centroid[1], 2),
             end_mel_bin |-> RoundHalfEven(10 * centroid[n], 2),
             slope_mel_per_sec |-> RoundHalfEven(100 * pitch_slope[1], pitch_slope[2]),
             std_mel_bin |-> RoundedStd(centroid, 2),
             classification |-> ClassifySegmentPitch(pitch_slope, centroid)]]

\* the loop that builds one segment per interval of at least
\* min_segment_frames frames
RECURSIVE CreateSegments(_, _, _, _, _, _)
CreateSegments(cfg, energy_db, centroid, changepoints, i, min_segment_frames) ==
    IF i >= Len(changepoints) THEN <<>>
    ELSE LET start_frame == changepoints[i]
             end_frame == changepoints[i + 1]
             rest == CreateSegments(cfg, energy_db, centroid, changepoints, i + 1,
                                    min_segment_frames)
         IN  IF end_frame - start_frame < min_segment_frames THEN rest
             ELSE <<ComputeSegmentStatistics(cfg,
                        Slice(energy_db, start_frame, end_frame),
                        Slice(centroid, start_frame, end_frame),
                        start_frame, end_frame)>> \o rest

\* the similarity test with "or" in the place of "and"
ShouldFuse_AnyCriterion(prev, seg, loudness_threshold, pitch_threshold) ==
    \/ Abs(seg.loudness.slope_db_per_sec - prev.loudness.slope_db_per_sec)
          < loudness_threshold
    \/ Abs(seg.loudness.mean_db - prev.loudness.mean_db) < FuseMeanDbThreshold
    \/ Abs(seg.pitch.slope_mel_per_sec - prev.pitch.slope_mel_per_sec)
          < 10 * pitch_threshold

\* the similarity test of _fuse_similar_segments
ShouldFuse(prev, seg, loudness_threshold, pitch_threshold) ==
    /\ Abs(seg.loudness.slope_db_per_sec - prev.loudness.slope_db_per_sec)
          < loudness_threshold
    /\ Abs(seg.loudness.mean_db - prev.loudness.mean_db) < FuseMeanDbThreshold
    /\ Abs(seg.pitch.slope_mel_per_sec - prev.pitch.slope_mel_per_sec)
          < 10 * pitch_threshold

\* a merge that also takes the end values of the merged segment
FuseInto_TakesEndValues(prev, seg) ==
    [prev EXCEPT
        !.end_time = seg.end_time,
        !.duration = seg.end_time - prev.start_time,
        !.loudness.mean_db = RoundHalfEven(prev.loudness.mean_db + seg.loudness.mean_db, 2),
        !.loudness.end_db = seg.loudness.end_db,
        !.pitch.mean_mel_bin =
            RoundHalfEven(prev.pitch.mean_mel_bin + seg.pitch.mean_mel_bin, 2),
        !.pitch.end_mel_bin = seg.pitch.end_mel_bin]

\* prev after seg has been merged into it; round(x, 1) is taken of the
\* double nearest to the mean, and where the mean lies on a half the
\* model rounds it to even
FuseInto(prev, seg) ==
    [prev EXCEPT
        !.end_time = seg.end_time,
        !.duration = seg.end_time - prev.start_time,
        !.loudness.mean_db = RoundHalfEven(prev.loudness.mean_db + seg.loudness.mean_db, 2),
        !.pitch.mean_mel_bin =
            RoundHalfEven(prev.pitch.mean_mel_bin + seg.pitch.mean_mel_bin, 2)]

\* one pass of the for loop of _fuse_similar_segments
FuseStep(fused, seg, loudness_threshold, pitch_threshold) ==
    LET prev == fused[Len(fused)]
    IN  IF ShouldFuse(prev, seg, loudness_threshold, pitch_threshold)
        THEN [fused EXCEPT ![Len(fused)] = FuseInto(prev, seg)]
        ELSE Append(fused, seg)

RECURSIVE FuseLoop(_, _, _, _)
FuseLoop(rest, fused, loudness_threshold, pitch_threshold) ==
    IF Len(rest) = 0 THEN fused
    ELSE FuseLoop(Tail(rest),
                  FuseStep(fused, Head(rest), loudness_threshold, pitch_threshold),
                  loudness_threshold, pitch_threshold)

\* the values the list fused takes in the for loop, the one before the
\* loop first
RECURSIVE FuseLoopTrace(_, _, _, _)
FuseLoopTrace(rest, fused, loudness_threshold, pitch_threshold) ==
    IF Len(rest) = 0 THEN <<fused>>
    ELSE <<fused>> \o
         FuseLoopTrace(Tail(rest),
                       FuseStep(fused, Head(rest), loudness_threshold, pitch_threshold),
                       loudness_threshold, pitch_threshold)

FuseTrace(segments, loudness_threshold, pitch_threshold) ==
    IF Len(segments) <= 1 THEN <<segments>>
    ELSE FuseLoopTrace(Tail(segments), <<Head(segments)>>, loudness_threshold,
                       pitch_threshold)

\* _fuse_similar_segments
FuseSimilarSegments(segments, loudness_threshold, pitch_threshold) ==
    IF Len(segments) <= 1 THEN segments
    ELSE FuseLoop(Tail(segments), <<Head(segments)>>, loudness_threshold, pitch_threshold)

\* the scan with "diff <= min_diff": the last pair with the smallest difference
MergeIdx_LastOnTies(segments) ==
    LET diff(i) == Abs(segments[i + 1].loudness.mean_db - segments[i + 2].loudness.mean_db)
    IN  CHOOSE i \in 0..(Len(segments) - 2) :
            /\ \A j \in 0..(Len(segments) - 2) : diff(i) <= diff(j)
            /\ \A j \in (i + 1)..(Len(segments) - 2) : diff(j) > diff(i)

\* the first adjacent pair (0-based) with the smallest difference of mean_db
MergeIdx(segments) ==
    LET diff(i) == Abs(segments[i + 1].loudness.mean_db - segments[i + 2].loudness.mean_db)
    IN  CHOOSE i \in 0..(Len(segments) - 2) :
            /\ \A j \in 0..(Len(segments) - 2) : diff(i) <= diff(j)
            /\ \A j \in 0..(i - 1) : diff(j) > diff(i)

RoundedMeanStd(a, b) ==
    IF IsNaN(a) \/ IsNaN(b) THEN NaN ELSE <<RoundHalfEven(a[1] + b[1], 2), 1>>

\* a merged segment that ends where the first of the pair ends
MergedSegment_EndsWithFirst(seg1, seg2) ==
    [seg1 EXCEPT
        !.loudness.mean_db = RoundHalfEven(seg1.loudness.mean_db + seg2.loudness.mean_db, 2),
        !.pitch.mean_mel_bin =
            RoundHalfEven(seg1.pitch.mean_mel_bin + seg2.pitch.mean_mel_bin, 2)]

\* the merged segment built from an adjacent pair
MergedSegment(seg1, seg2) ==
    LET span == seg2.end_time - seg1.start_time
    IN  [start_time |-> seg1.start_time,
         end_time |-> seg2.end_time,
         duration |-> span,
         loudness |->
            [mean_db |-> RoundHalfEven(seg1.loudness.mean_db + seg2.loudness.mean_db, 2),
             start_db |-> seg1.loudness.start_db,
             end_db |-> seg2.loudness.end_db,
             slope_db_per_sec |->
                RoundHalfEven(100 * (seg2.loudness.end_db - seg1.loudness.start_db), span),
             std_db |-> RoundedMeanStd(seg1.loudness.std_db, seg2.loudness.std_db),
             classification |-> seg1.loudness.classification],
         pitch |->
            [mean_mel_bin |->
                RoundHalfEven(seg1.pitch.mean_mel_bin + seg2.pitch.mean_mel_bin, 2),
             start_mel_bin |-> seg1.pitch.start_mel_bin,
             end_mel_bin |-> seg2.pitch.end_mel_bin,
             slope_mel_per_sec |->
                RoundHalfEven(1000 * (seg2.pitch.end_mel_bin - seg1.pitch.start_mel_bin),
                              span),
             std_mel_bin |-> RoundedMeanStd(seg1.pitch.std_mel_bin, seg2.pitch.std_mel_bin),
             classification |-> seg1.pitch.classification]]

\* one pass of the while loop of _merge_to_max_segments
MergeStep(segments) ==
    LET merge_idx == MergeIdx(segments)
        merged == MergedSegment(segments[merge_idx + 1], segments[merge_idx + 2])
    IN  SubSeq(segments, 1, merge_idx) \o <<merged>>
            \o SubSeq(segments, merge_idx + 3, Len(segments))

\* the values the variable segments takes in _merge_to_max_segments, the
\* argument first and the returned list last
RECURSIVE MergeTrace(_, _)
MergeTrace(segments, max_segments) ==
    IF Len(segments) <= max_segments THEN <<segments>>
    ELSE <<segments>> \o MergeTrace(MergeStep(segments), max_segments)

\* "if" in the place of "while": at most one merge
MergeToMaxSegments_SingleMerge(segments, max_segments) ==
    IF Len(segments) <= max_segments THEN segments ELSE MergeStep(segments)

\* _merge_to_max_segments
MergeToMaxSegments(segments, max_segments) ==
    LET trace == MergeTrace(segments, max_segments)
    IN  trace[Len(trace)]

\* a call of _fuse_similar_segments on one of the given lists; trace is
\* FuseTrace, kept to tell what each pass of the loop did
FuseSimilarSegmentsOn(lists) ==
    /\ Ready
    /\ \E segments \in lists, loudness_threshold \in {20, 50}, pitch_threshold \in {20} :
          ret' = [op |-> "_fuse_similar_segments",
                  raised |-> "none",
                  args |-> [segments |-> segments,
                            loudness_threshold |-> loudness_threshold,
                            pitch_threshold |-> pitch_threshold],
                  trace |-> FuseTrace(segments, loudness_threshold, pitch_threshold),
                  segments |-> FuseSimilarSegments(segments, loudness_threshold,
                                                   pitch_threshold)]
    /\ UNCHANGED <<config, mel_power, run>>

\* a call of _merge_to_max_segments on one of the given lists; trace is
\* MergeTrace, kept to tell what each pass of the loop did
MergeToMaxSegmentsOn(lists) ==
    /\ Ready
    /\ \E segments \in lists, max_segments \in 1..MaxSegmentCount :
          ret' = [op |-> "_merge_to_max_segments",
                  raised |-> "none",
                  args |-> [segments |-> segments, max_segments |-> max_segments],
                  trace |-> MergeTrace(segments, max_segments),
                  segments |-> MergeToMaxSegments(segments, max_segments)]
    /\ UNCHANGED <<config, mel_power, run>>

ExtractTemporalSegmentsResult(mel, cfg, min_segment_duration, max_segments, loudness_change_threshold, pitch_change_threshold) ==
    LET min_segment_frames == MinSegmentFrames(cfg, min_segment_duration)
        energy_db_over_time == EnergyDbOverTime(mel)
        centroid_over_time == CentroidOverTime(mel)
        changepoints == DetectChangepoints(energy_db_over_time, centroid_over_time,
                                           loudness_change_threshold,
                                           pitch_change_threshold, min_segment_frames)
        created == CreateSegments(cfg, energy_db_over_time, centroid_over_time,
                                  changepoints, 1, min_segment_frames)
        fused == FuseSimilarSegments(created, loudness_change_threshold,
                                     pitch_change_threshold)
        segments == IF Len(fused) > max_segments
                    THEN MergeToMaxSegments(fused, max_segments)
                    ELSE fused
        args == [min_segment_duration |-> min_segment_duration,
                 max_segments |-> max_segments]
    IN  IF DetectChangepointsRaises(energy_db_over_time)
        THEN [op |-> "extract_temporal_segments",
              raised |-> "RuntimeError in _detect_changepoints",
              args |-> args]
        ELSE [op |-> "extract_temporal_segments",
              raised |-> "none",
              args |-> args,
              temporal_segments |-> segments]

MaxSegmentsArgs == {1, 2, DefaultMaxSegments}

ExtractTemporalSegments ==
    /\ Ready
    /\ \E max_segments \in MaxSegmentsArgs :
          ret' = ExtractTemporalSegmentsResult(mel_power, config,
                     DefaultMinSegmentDuration, max_segments,
                     DefaultLoudnessChangeThreshold, DefaultPitchChangeThreshold)
    /\ UNCHANGED <<config, mel_power, run>>

(***************************************************************************)
(* extract_temporal_statistics, and the two stages whose values depend on  *)
(* the band layout of AUDIO_CONFIG, which a frame [k, c] leaves open: each *)
(* of their fields holds the stage that computed it                        *)
(***************************************************************************)
ExtractTemporalStatisticsResult(mel) ==
    LET e == EnergyDbOverTime(mel)
        n == Len(e)
        \* torch.var / torch.std of one value is NaN
        variance == IF n < 2 THEN NaN ELSE Rat(DevN(e), n * (n - 1))
    IN  [temporal_energy_mean |-> Rat(Sum(e), n),
         temporal_energy_std |-> [sqrt_of |-> variance],
         temporal_energy_max |-> SeqMax(e),
         temporal_energy_min |-> SeqMin(e),
         temporal_energy_range |-> SeqMax(e) - SeqMin(e),
         temporal_variance |-> variance]

EnergyDistributionKeys ==
    {"very_low_energy_mean", "very_low_energy_std", "very_low_energy_max",
     "very_low_temporal_std",
     "low_energy_mean", "low_energy_std", "low_energy_max", "low_temporal_std",
     "mid_low_energy_mean", "mid_low_energy_std", "mid_low_energy_max",
     "mid_low_temporal_std",
     "mid_high_energy_mean", "mid_high_energy_std", "mid_high_energy_max",
     "mid_high_temporal_std",
     "high_energy_mean", "high_energy_std", "high_energy_max", "high_temporal_std"}

ExtractEnergyDistributionResult(mel) ==
    [key \in EnergyDistributionKeys |-> [stage |-> "extract_energy_distribution"]]

SpectralCharacteristicsKeys ==
    {"spectral_centroid_mel", "spectral_spread_mel", "spectral_skewness_mel",
     "spectral_kurtosis_mel", "dominant_mel_bin", "energy_concentration",
     "spectral_entropy", "spectral_flatness_mel"}

ExtractSpectralCharacteristicsResult(mel) ==
    [key \in SpectralCharacteristicsKeys |-> [stage |-> "extract_spectral_characteristics"]]

(***************************************************************************)
(* MelFeatures and extract_all_features                                    *)
(***************************************************************************)
\* the fields of the dataclass MelFeatures
MelFeaturesFields ==
    EnergyDistributionKeys \cup
    {"temporal_energy_mean", "temporal_energy_std", "temporal_energy_max",
     "temporal_energy_min", "temporal_energy_range"} \cup
    {"silence_percentage", "num_silent_frames", "num_active_regions",
     "active_time_percentage"} \cup
    SpectralCharacteristicsKeys \cup
    {"stationarity", "onset_strength", "temporal_variance"} \cup
    {"num_peaks", "peak_times", "peak_magnitudes"} \cup
    {"envelope_shape", "envelope_trajectory", "pitch_movement", "pitch_trajectory",
     "rhythm_regularity", "rhythm_type"} \cup
    {"temporal_segments"}

\* no MelFeatures object
NoFeatures == [constructed |-> FALSE]

\* the dict a stage returns: the feature keys of its result
StageDict(result) == [key \in DOMAIN result \ {"op", "raised", "args"} |-> result[key]]

\* {**f, **g}
MergeDicts(f, g) ==
    [key \in DOMAIN f \cup DOMAIN g |-> IF key \in DOMAIN g THEN g[key] ELSE f[key]]

\* the shape after "if ndim == 3: squeeze(0)": squeeze only drops a
\* dimension of size 1
SqueezedShape(shape) ==
    IF Len(shape) = 3 /\ shape[1] = 1 THEN Tail(shape) ELSE shape

\* the shapes a caller can wrap the clip in: 2-D, 3-D with a leading
\* dimension of 1 or 2, 1-D, 0-D and 4-D
TensorShapes(mel) ==
    {<<NMels, Len(mel)>>, <<1, NMels, Len(mel)>>, <<2, NMels, Len(mel)>>,
     <<NMels>>, <<>>, <<1, 1, NMels, Len(mel)>>}

\* a tensor of 3 or more dimensions passes the first two stages, which
\* only slice and reduce it; which later stage rejects it depends on its
\* sizes, the last one (avg_pool1d on a 4-D or 5-D tensor) always does
RejectStages(shape) == IF Len(SqueezedShape(shape)) > 2 THEN 3..8 ELSE {0}

\* {**energy, **temporal, **silence, **spectral, **dynamics, **event,
\* **trajectory, **segmentation}; a stage that raised contributes nothing
CombinedFeatures(mel, cfg, ties) ==
    LET energy_features == ExtractEnergyDistributionResult(mel)
        temporal_features == ExtractTemporalStatisticsResult(mel)
        spectral_features == ExtractSpectralCharacteristicsResult(mel)
        dynamics_features == StageDict(ExtractTemporalDynamicsResult(mel))
        silence_features == StageDict(DetectSilenceResult(mel, SilenceThresholdDb))
        event_features ==
            StageDict(DetectSalientEventsResult(mel, cfg, DefaultNumPeaks,
                          DefaultMinProminenceRatio, DefaultMinInterEventTime))
        trajectory_features ==
            StageDict(ExtractTemporalTrajectoriesResult(mel, NumTrajectoryPoints,
                                                        ties))
        segmentation_features ==
            StageDict(ExtractTemporalSegmentsResult(mel, cfg, DefaultMinSegmentDuration,
                          DefaultMaxSegments, DefaultLoudnessChangeThreshold,
                          DefaultPitchChangeThreshold))
    IN  MergeDicts(energy_features,
        MergeDicts(temporal_features,
        MergeDicts(silence_features,
        MergeDicts(spectral_features,
        MergeDicts(dynamics_features,
        MergeDicts(event_features,
        MergeDicts(trajectory_features, segmentation_features)))))))

\* the first of the eight stages to raise on a 2-D matrix, in call order
StageError(mel, cfg, ties) ==
    LET trajectory == ExtractTemporalTrajectoriesResult(mel, NumTrajectoryPoints, ties)
        segmentation ==
            ExtractTemporalSegmentsResult(mel, cfg, DefaultMinSegmentDuration,
                DefaultMaxSegments, DefaultLoudnessChangeThreshold,
                DefaultPitchChangeThreshold)
    IN  IF trajectory.raised # "none" THEN [raised |-> trajectory.raised, stage |-> 7]
        ELSE IF segmentation.raised # "none"
             THEN [raised |-> segmentation.raised, stage |-> 8]
        ELSE [raised |-> "none", stage |-> 8]

\* an exception leaves extract_all_features: nothing is returned
RaisedResult(args, error, stages) ==
    [op |-> "extract_all_features", args |-> args, raised |-> error,
     stages_run |-> stages, features |-> NoFeatures]

ExtractAllFeaturesResult_PartialRecord(mel, cfg, shape, is_db, ties, reject_stage) ==
    LET args == [shape |-> shape, is_db |-> is_db]
        error == StageError(mel, cfg, ties)
        all_features == CombinedFeatures(mel, cfg, ties)
    IN  IF Len(shape) = 1 THEN RaisedResult(args, "ValueError", 0)
        ELSE IF Len(SqueezedShape(shape)) = 0
             THEN RaisedResult(args, "IndexError in extract_energy_distribution", 1)
        ELSE IF Len(SqueezedShape(shape)) > 2
             THEN RaisedResult(args, "RuntimeError", reject_stage)
        ELSE [op |-> "extract_all_features", args |-> args, raised |-> error.raised,
              stages_run |-> error.stage, features |-> all_features]

ExtractAllFeaturesResult(mel, cfg, shape, is_db, ties, reject_stage) ==
    LET args == [shape |-> shape, is_db |-> is_db]
        error == StageError(mel, cfg, ties)
        all_features == CombinedFeatures(mel, cfg, ties)
    IN  IF Len(shape) = 1 THEN RaisedResult(args, "ValueError", 0)
        ELSE IF Len(SqueezedShape(shape)) = 0
             THEN RaisedResult(args, "IndexError in extract_energy_distribution", 1)
        ELSE IF Len(SqueezedShape(shape)) > 2
             THEN RaisedResult(args, "RuntimeError", reject_stage)
        ELSE IF error.raised # "none" THEN RaisedResult(args, error.raised, error.stage)
        \* MelFeatures(**all_features) needs exactly the fields
        ELSE IF DOMAIN all_features # MelFeaturesFields
             THEN RaisedResult(args, "TypeError", 8)
        ELSE [op |-> "extract_all_features", args |-> args, raised |-> "none",
              stages_run |-> 8, features |-> all_features]

\* the dB input is converted to linear power first; mel_power is the matrix
\* after that step either way
ExtractAllFeatures ==
    /\ Ready
    /\ \E shape \in TensorShapes(mel_power), is_db \in BOOLEAN :
          \E ties \in TieOutcomes(mel_power), reject_stage \in RejectStages(shape) :
             ret' = ExtractAllFeaturesResult(mel_power, config, shape, is_db,
                                             ties, reject_stage)
    /\ UNCHANGED <<config, mel_power, run>>

(***************************************************************************)
(* MelFeatures.to_dict and dict_to_mel_features                            *)
(***************************************************************************)
\* the fields of MelFeatures that hold a list of numbers
ListFields == {"peak_times", "peak_magnitudes", "envelope_trajectory", "pitch_trajectory"}

\* dataclasses.asdict on a list: a new list of the converted elements
CopyList(values) == [i \in 1..Len(values) |-> values[i]]

\* dataclasses.asdict on a dict: a new dict of the converted values
CopyDict(d) == [key \in DOMAIN d |-> d[key]]

ToDict_WithoutSegments(features) ==
    [name \in DOMAIN features \ {"temporal_segments"} |->
        IF name \in ListFields THEN CopyList(features[name])
        ELSE features[name]]

\* asdict(self): one key per field, lists and the dicts inside them copied
ToDict(features) ==
    [name \in DOMAIN features |->
        IF name = "temporal_segments"
        THEN [i \in 1..Len(features[name]) |-> CopyDict(features[name][i])]
        ELSE IF name \in ListFields THEN CopyList(features[name])
        ELSE features[name]]

\* MelFeatures(**features_dict): a TypeError unless the keys are the fields
DictToMelFeatures(features_dict) ==
    IF DOMAIN features_dict = MelFeaturesFields
    THEN [name \in MelFeaturesFields |-> features_dict[name]]
    ELSE NoFeatures

\* a returned record is flattened with to_dict and rebuilt
RebuildFromDict ==
    /\ ret.op = "extract_all_features"
    /\ ret.raised = "none"
    /\ LET rebuilt == DictToMelFeatures(ToDict(ret.features))
       IN  ret' = [op |-> "dict_to_mel_features",
                   raised |-> IF rebuilt = NoFeatures THEN "TypeError" ELSE "none",
                   original |-> ret.features,
                   features |-> rebuilt]
    /\ UNCHANGED <<config, mel_power, run>>

(***************************************************************************)
(* BatchFeatureGenerator.process_directory and                             *)
(* BatchCaptionFromFeaturesGenerator.process_features_file.  Clips are     *)
(* numbered in sorted order; a result is [file_name, caption_error];       *)
(* elapsed times and throughput figures are left out                       *)
(***************************************************************************)
Min2(a, b) == IF a <= b THEN a ELSE b

\* [x for x in items if x not in processed]
RECURSIVE FilterRemaining(_, _)
FilterRemaining(items, processed) ==
    IF Len(items) = 0 THEN <<>>
    ELSE (IF Head(items) \in processed THEN <<>> ELSE <<Head(items)>>)
         \o FilterRemaining(Tail(items), processed)

\* set([r['file_name'] for r in all_results])
FileNames(results) == {results[j].file_name : j \in 1..Len(results)}

\* an output file that has not been written
NotWritten == [written |-> FALSE]

\* _save_checkpoint
SaveCheckpoint(results, num_processed, total, total_errors) ==
    [written |-> TRUE, num_processed |-> num_processed, total |-> total,
     total_errors |-> total_errors, results |-> results]

\* process_batch raises when loading, converting or extracting any one of
\* its clips raises
ProcessBatchRaises(batch, failing) == \E j \in 1..Len(batch) : batch[j] \in failing

\* the results of process_batch: one per clip of the batch
ProcessBatchResults(batch, error_captions) ==
    [j \in 1..Len(batch) |->
        [file_name |-> batch[j], caption_error |-> batch[j] \in error_captions]]

\* sum(1 for c in captions if c.startswith('[Error'))
ErrorCount(results) == Cardinality({j \in 1..Len(results) : results[j].caption_error})

\* the code before the loop with the filter on the stems left out: every
\* file found is queued again
StartRun_NoFilter(r) ==
    [r EXCEPT !.pc = "loop",
              !.remaining = r.items,
              !.i = 0,
              !.all_results = r.resume_results,
              !.num_processed = Cardinality(FileNames(r.resume_results)),
              !.total_errors = r.resume_errors]

\* the code before the loop: load the checkpoint, filter, return early if
\* nothing remains
StartRun(r) ==
    LET all_results == r.resume_results
        processed_files == FileNames(all_results)
        remaining == FilterRemaining(r.items, processed_files)
    IN  [r EXCEPT !.pc = IF Len(remaining) = 0 THEN "done" ELSE "loop",
                  !.remaining = remaining,
                  !.i = 0,
                  !.all_results = all_results,
                  !.num_processed = Cardinality(processed_files),
                  !.total_errors = r.resume_errors]

\* one pass of the loop body; the pass that ends the loop also runs the
\* code after it, which writes the final output
RunIteration(r) ==
    LET batch == Slice(r.remaining, r.i, Min2(r.i + r.batch_size, Len(r.remaining)))
        last == r.i + r.batch_size >= Len(r.remaining)
        batch_results == ProcessBatchResults(batch, r.error_captions)
        raised == ProcessBatchRaises(batch, r.failing)
        all_results == IF raised THEN r.all_results ELSE r.all_results \o batch_results
        num_processed == IF raised THEN r.num_processed
                         ELSE r.num_processed + Len(batch_results)
        total_errors == IF raised THEN r.total_errors
                        ELSE r.total_errors + ErrorCount(batch_results)
        checkpointing == ~raised /\ (num_processed % r.checkpoint_every = 0 \/ last)
        saved == SaveCheckpoint(all_results, num_processed, Len(r.items), total_errors)
    IN  [r EXCEPT !.pc = IF last THEN "done" ELSE "loop",
                  !.i = r.i + r.batch_size,
                  !.submitted = r.submitted \o batch,
                  !.all_results = all_results,
                  !.num_processed = num_processed,
                  !.total_errors = total_errors,
                  !.checkpoint = IF checkpointing THEN saved ELSE r.checkpoint,
                  !.checkpoint_error = IF raised THEN saved ELSE r.checkpoint_error,
                  !.incremental =
                      IF checkpointing
                      THEN Append(r.incremental,
                                  [num_processed |-> num_processed, lines |-> batch_results])
                      ELSE r.incremental,
                  !.final = IF last THEN [written |-> TRUE, lines |-> all_results]
                            ELSE r.final]

StartProcessDirectory ==
    /\ run.pc = "start"
    /\ run.stage = "features"
    /\ run' = StartRun(run)
    /\ UNCHANGED <<config, mel_power, ret>>

ProcessDirectoryIteration ==
    /\ run.pc = "loop"
    /\ run.stage = "features"
    /\ run' = RunIteration(run)
    /\ UNCHANGED <<config, mel_power, ret>>

StartProcessFeaturesFile ==
    /\ run.pc = "start"
    /\ run.stage = "captions"
    /\ run' = StartRun(run)
    /\ UNCHANGED <<config, mel_power, ret>>

ProcessFeaturesFileIteration ==
    /\ run.pc = "loop"
    /\ run.stage = "captions"
    /\ run' = RunIteration(run)
    /\ UNCHANGED <<config, mel_power, ret>>

(***************************************************************************)
(* Specification                                                           *)
(***************************************************************************)
Init ==
    /\ config \in AudioConfigs
    /\ mel_power \in MelInputs
    /\ ret = [op |-> "none", raised |-> "none"]
    /\ run = NoRun

Next ==
    \/ DetectSilence
    \/ ExtractTemporalDynamics
    \/ DetectSalientEvents
    \/ ExtractTemporalTrajectories
    \/ CallClassifyEnvelopeShape
    \/ ExtractTemporalSegments
    \/ CallDetectChangepoints

Spec == Init /\ [][Next]_vars

(***************************************************************************)
(* Clips long enough to hold several onsets: silent frames with at most    *)
(* MaxLoudFrames loud ones                                                 *)
(***************************************************************************)
RECURSIVE FrameChoices(_)
FrameChoices(k) ==
    IF k = 0 THEN {{}}
    ELSE LET smaller == FrameChoices(k - 1)
         IN  smaller \cup {s \cup {f} : s \in smaller, f \in 1..MaxRhythmFrames}

RhythmClip(loud) ==
    AsTuple([i \in 1..MaxRhythmFrames |->
                [k |-> IF i \in loud THEN 1 ELSE 0, c |-> MidBin2]])

RhythmInputs == {RhythmClip(loud) : loud \in FrameChoices(MaxLoudFrames)}

InitRhythm ==
    /\ config \in AudioConfigs
    /\ mel_power \in RhythmInputs
    /\ ret = [op |-> "none", raised |-> "none"]
    /\ run = NoRun

NextRhythm == ExtractTemporalTrajectories

SpecRhythm == InitRhythm /\ [][NextRhythm]_vars

(***************************************************************************)
(* Whole-record extraction on short clips in every tensor shape            *)
(***************************************************************************)
AllInputs == UNION {[1..n -> FrameSet] : n \in 1..MaxAllFrames}

InitAll ==
    /\ config \in AudioConfigs
    /\ mel_power \in AllInputs
    /\ ret = [op |-> "none", raised |-> "none"]
    /\ run = NoRun

NextAll ==
    \/ ExtractAllFeatures
    \/ RebuildFromDict

SpecAll == InitAll /\ [][NextAll]_vars

(***************************************************************************)
(* Batch runs over up to MaxFiles clips                                    *)
(***************************************************************************)
RECURSIVE ClipChoices(_, _)
ClipChoices(n, k) ==
    IF k = 0 THEN {{}}
    ELSE LET smaller == ClipChoices(n, k - 1)
         IN  smaller \cup {s \cup {f} : s \in smaller, f \in 1..n}

\* the results a checkpoint written by an earlier run holds for clips
ResumeResults(clips) ==
    LET names == SortByTime(clips)
    IN  [j \in 1..Len(names) |-> [file_name |-> names[j], caption_error |-> FALSE]]

BatchRuns ==
    {[pc |-> "start", stage |-> stage, items |-> [j \in 1..n |-> j],
      failing |-> failing, error_captions |-> error_captions,
      batch_size |-> batch_size, checkpoint_every |-> checkpoint_every,
      resume_results |-> ResumeResults(resumed), resume_errors |-> 0,
      remaining |-> <<>>, i |-> 0, all_results |-> <<>>, num_processed |-> 0,
      total_errors |-> 0, checkpoint |-> NotWritten, checkpoint_error |-> NotWritten,
      incremental |-> <<>>, final |-> NotWritten, submitted |-> <<>>] :
        stage \in {"features", "captions"}, n \in 1..MaxFiles,
        failing \in ClipChoices(MaxFiles, MaxFailing),
        error_captions \in {{}, {1}},
        batch_size \in 1..MaxBatchSize, checkpoint_every \in 1..MaxCheckpointEvery,
        resumed \in ClipChoices(MaxResumed, MaxResumed)}

InitBatch ==
    /\ config \in AudioConfigs
    /\ mel_power = <<[k |-> 0, c |-> MidBin2]>>
    /\ ret = [op |-> "none", raised |-> "none"]
    /\ run \in {r \in BatchRuns :
                   /\ r.failing \subseteq 1..Len(r.items)
                   /\ r.stage = "features" => r.error_captions = {}}

NextBatch ==
    \/ StartProcessDirectory
    \/ ProcessDirectoryIteration
    \/ StartProcessFeaturesFile
    \/ ProcessFeaturesFileIteration

SpecBatch == InitBatch /\ [][NextBatch]_vars

(***************************************************************************)
(* _classify_envelope_shape called on curves of its own: every curve of    *)
(* up to MaxCurveLen values among 0.0, 0.1, .. 1.0                         *)
(***************************************************************************)
EnvelopeCurves ==
    UNION {{[d |-> AsTuple(d), r |-> 10] : d \in [1..n -> 0..10]} : n \in 1..MaxCurveLen}

InitEnvelope ==
    /\ config \in AudioConfigs
    /\ mel_power = <<[k |-> 0, c |-> MidBin2]>>
    /\ ret = [op |-> "none", raised |-> "none"]
    /\ run = NoRun

NextEnvelope == ClassifyEnvelopeShapeOn(EnvelopeCurves)

SpecEnvelope == InitEnvelope /\ [][NextEnvelope]_vars

(***************************************************************************)
(* _classify_pitch_movement called on centroid curves of its own: ramps    *)
(* and triangle waves that start at bin 0 or at their top, move by one     *)
(* step a frame and turn round every run_length frames                     *)
(***************************************************************************)
\* the steps tried, in half bins: 0, 1, 2, 5, 10 and 11 bins a frame
PitchSteps2 == {0, 2, 4, 10, 20, 22}

\* how many steps above the bottom a wave of the given run length is at
\* frame i (0-based)
TrianglePhase(i, run_length) ==
    LET p == i % (2 * run_length)
    IN  IF p <= run_length THEN p ELSE 2 * run_length - p

TriangleCurve(n, step, run_length, rising_first) ==
    AsTuple([i \in 1..n |->
        IF rising_first THEN step * TrianglePhase(i - 1, run_length)
        ELSE step * (run_length - TrianglePhase(i - 1, run_length))])

PitchCurves ==
    {TriangleCurve(n, step, run_length, rising_first) :
        n \in 1..MaxPitchFrames, step \in PitchSteps2,
        run_length \in {r \in 1..MaxPitchFrames : r * 22 <= 2 * (NMels - 1)},
        rising_first \in BOOLEAN}

InitPitch ==
    /\ config \in AudioConfigs
    /\ mel_power = <<[k |-> 0, c |-> MidBin2]>>
    /\ ret = [op |-> "none", raised |-> "none"]
    /\ run = NoRun

NextPitch == ClassifyPitchMovementOn(PitchCurves)

SpecPitch == InitPitch /\ [][NextPitch]_vars

(***************************************************************************)
(* _fuse_similar_segments and _merge_to_max_segments called on lists of    *)
(* their own: segments as _compute_segment_statistics writes them, in time *)
(* order, each half a second long, touching or a tenth of a second apart   *)
(***************************************************************************)
\* mean_db of a segment, in tenths: -50.0, -47.0 and -44.1 dB
SegmentMeanDbs == {-500, -470, -441}

\* slope_db_per_sec of a segment, in tenths: 0.0 and 2.5 dB/s
SegmentLoudnessSlopes == {0, 25}

\* slope_mel_per_sec of segment i (1-based), in hundredths: 0.0 everywhere,
\* or 2.5 bins/s in every second segment
SegmentPitchSlope(i, pitch_alternates) == IF pitch_alternates /\ i % 2 = 0 THEN 250 ELSE 0

\* segment i of a list; the fields that fusion and capping only copy
\* differ from one segment to the next
SegmentAt(i, mean_db, slope_db_per_sec, pitch_alternates, gap) ==
    [start_time |-> (i - 1) * (50 + gap),
     end_time |-> (i - 1) * (50 + gap) + 50,
     duration |-> 50,
     loudness |->
        [mean_db |-> mean_db,
         start_db |-> mean_db - 5 - i,
         end_db |-> mean_db + 5 + 2 * i,
         slope_db_per_sec |-> slope_db_per_sec,
         std_db |-> <<i, 1>>,
         classification |-> IF i % 2 = 1 THEN "steady" ELSE "crescendo"],
     pitch |->
        [mean_mel_bin |-> 300 + 7 * i,
         start_mel_bin |-> 290 + i,
         end_mel_bin |-> 310 + 3 * i,
         slope_mel_per_sec |-> SegmentPitchSlope(i, pitch_alternates),
         std_mel_bin |-> <<2 * i, 1>>,
         classification |-> IF i % 2 = 1 THEN "stable" ELSE "rising"]]

SegmentLists ==
    {AsTuple([i \in DOMAIN choice |->
                SegmentAt(i, choice[i][1], choice[i][2], pitch_alternates, gap)]) :
        choice \in UNION {[1..n -> SegmentMeanDbs \X SegmentLoudnessSlopes] :
                             n \in 0..MaxSegmentCount},
        pitch_alternates \in BOOLEAN, gap \in {0, 10}}

InitSegments ==
    /\ config = CHOOSE cfg \in AudioConfigs : TRUE
    /\ mel_power = <<[k |-> 0, c |-> MidBin2]>>
    /\ ret = [op |-> "none", raised |-> "none"]
    /\ run = NoRun

NextSegments ==
    \/ FuseSimilarSegmentsOn(SegmentLists)
    \/ MergeToMaxSegmentsOn(SegmentLists)

SpecSegments == InitSegments /\ [][NextSegments]_vars

(***************************************************************************)
(* detect_salient_events on clips longer than the prominence window: every *)
(* frame at level 1 but for up to three frames at level 0 or 2             *)
(***************************************************************************)
\* the ways to give up to three frames of the clip another level
EventChoices ==
    {<<>>} \cup UNION {[1..n -> (1..MaxEventFrames) \X {0, 2}] : n \in 1..3}

EventClip(choice) ==
    AsTuple([i \in 1..MaxEventFrames |->
        [k |-> IF \E j \in DOMAIN choice : choice[j][1] = i
               THEN (choice[CHOOSE j \in DOMAIN choice : choice[j][1] = i])[2]
               ELSE 1,
         c |-> MidBin2]])

EventInputs == {EventClip(choice) : choice \in EventChoices}

InitEvents ==
    /\ config \in AudioConfigs
    /\ mel_power \in EventInputs
    /\ ret = [op |-> "none", raised |-> "none"]
    /\ run = NoRun

\* min_prominence_ratio 0.05 and 0.95
NextEvents == DetectSalientEventsWith({5, 95})

SpecEvents == InitEvents /\ [][NextEvents]_vars

(***************************************************************************)
(* Properties                                                              *)
(***************************************************************************)
Frames == NumFrames(mel_power)

\* the clip lasts Frames * hop_length / sample_rate seconds; t is in
\* hundredths of a second
IsClipDuration(t) == t * config.sample_rate = 100 * Frames * config.hop_length

SegmentsReturned == ret.op = "extract_temporal_segments" /\ ret.raised = "none"

\* C1: the segments returned by extract_temporal_segments are contiguous,
\* the first starts at 0 and the last ends at the clip duration
C1_SegmentsContiguousOverClip ==
    SegmentsReturned /\ Len(ret.temporal_segments) > 0 =>
        LET segments == ret.temporal_segments
        IN  /\ \A i \in 1..(Len(segments) - 1) :
                   segments[i].end_time = segments[i + 1].start_time
            /\ segments[1].start_time = 0
            /\ IsClipDuration(segments[Len(segments)].end_time)

\* C2: for every max_segments >= 1, the list extract_temporal_segments
\* returns has between 1 and max_segments segments
C2_SegmentCountWithinBounds ==
    SegmentsReturned =>
        /\ Len(ret.temporal_segments) >= 1
        /\ Len(ret.temporal_segments) <= ret.args.max_segments

\* C3: for a clip of fewer than 2 * min_segment_frames frames,
\* extract_temporal_segments returns exactly one segment, from 0 to the
\* clip duration
C3_ShortClipSingleSegment ==
    /\ SegmentsReturned
    /\ Frames < 2 * MinSegmentFrames(config, ret.args.min_segment_duration)
    =>  /\ Len(ret.temporal_segments) = 1
        /\ ret.temporal_segments[1].start_time = 0
        /\ IsClipDuration(ret.temporal_segments[1].end_time)

C5_AtMostNumPeaks ==
    ret.op = "detect_salient_events" =>
        /\ ret.num_peaks <= ret.args.num_peaks
        /\ Len(ret.peak_times) <= ret.args.num_peaks
        /\ Len(ret.peak_magnitudes) <= ret.args.num_peaks

\* frames of the clip whose energy is strictly below the silence threshold
FramesBelowThreshold ==
    {i \in 1..Frames : EnergyDbOverTime(mel_power)[i] < SilenceThresholdDb}

\* C6: detect_silence returns silence_percentage + active_time_percentage
\* = 100, where silence_percentage is 100 * (number of frames strictly
\* below the threshold) / (number of frames)
C6_SilencePlusActiveIs100 ==
    ret.op = "detect_silence" =>
        /\ RatEq(RatAdd(ret.silence_percentage, ret.active_time_percentage), <<100, 1>>)
        /\ ret.num_silent_frames = Cardinality(FramesBelowThreshold)
        /\ RatEq(ret.silence_percentage, <<100 * Cardinality(FramesBelowThreshold), Frames>>)

\* a clip with silent frames, active frames and a frame exactly at the
\* threshold has been analysed
C6_Witness ==
    /\ ret.op = "detect_silence"
    /\ ret.num_silent_frames > 0
    /\ ret.num_silent_frames < Frames
    /\ \E i \in 1..Frames : EnergyDbOverTime(mel_power)[i] = SilenceThresholdDb

\* the maximal runs a..b of consecutive active frames
ActiveRuns ==
    LET active(i) == i \notin FramesBelowThreshold
    IN  {r \in (1..Frames) \X (1..Frames) :
            /\ r[1] <= r[2]
            /\ \A i \in r[1]..r[2] : active(i)
            /\ r[1] = 1 \/ ~active(r[1] - 1)
            /\ r[2] = Frames \/ ~active(r[2] + 1)}

\* C7: num_active_regions is the number of maximal runs of consecutive
\* active frames: 1 for a clip that is active throughout, 0 for a clip
\* that is silent throughout
C7_ActiveRegionsAreMaximalRuns ==
    ret.op = "detect_silence" =>
        /\ ret.num_active_regions = Cardinality(ActiveRuns)
        /\ FramesBelowThreshold = {} => ret.num_active_regions = 1
        /\ FramesBelowThreshold = 1..Frames => ret.num_active_regions = 0

\* a clip that starts active, falls silent and becomes active again
C7_Witness ==
    /\ ret.op = "detect_silence"
    /\ 1 \notin FramesBelowThreshold
    /\ ret.num_active_regions >= 2

\* the energy curve never decreases from one frame to the next
MonotonicallyIncreasing ==
    \A i \in 1..(Frames - 1) :
        EnergyDbOverTime(mel_power)[i] <= EnergyDbOverTime(mel_power)[i + 1]

EnvelopeClassified ==
    \/ ret.op = "_classify_envelope_shape"
    \/ ret.op = "extract_temporal_trajectories" /\ ret.raised = "none"

\* C8: a monotonically increasing energy curve whose normalised slope is
\* above 0.3 is classified "crescendo"
C8_IncreasingCurveIsCrescendo ==
    /\ EnvelopeClassified
    /\ MonotonicallyIncreasing
    /\ RatLt(<<3, 10>>, EnvelopeSlope(EnergyNormalized(mel_power)))
    =>  ret.envelope_shape = "crescendo"

\* every frame has the same mean power
FlatCurve == \A i \in 1..Frames : mel_power[i].k = mel_power[1].k

\* C9: a perfectly flat energy curve gives stationarity 0, onset_strength 0
\* and envelope shape "steady"
C9_FlatCurveIsStationaryAndSteady ==
    FlatCurve =>
        /\ ret.op = "extract_temporal_dynamics" =>
               /\ RatEq(ret.stationarity, <<0, 1>>)
               /\ RatEq(ret.onset_strength, <<0, 1>>)
        /\ EnvelopeClassified => ret.envelope_shape = "steady"

Onsets == SortByTime(OnsetFrames(mel_power))

Iois == Diff(Onsets)

TrajectoriesReturned == ret.op = "extract_temporal_trajectories" /\ ret.raised = "none"

\* C11: with more than 2 onsets (3 included) the rhythm type is
\* "accelerating" / "decelerating" when the slope of the line fitted to the
\* inter-onset intervals exceeds 30% of their mean in magnitude, negative /
\* positive; otherwise "regular" if regularity > 0.7, else "irregular"; with
\* exactly 2 onsets it is "isolated_events"
C11_RhythmTypeFollowsIoiTrend ==
    TrajectoriesReturned /\ Len(Onsets) >= 2 /\ ~SlopeTie(Iois) =>
        ret.rhythm_type =
            IF Len(Onsets) <= 2 THEN "isolated_events"
            ELSE IF 10 * Len(Iois) * Abs(CovN(Iois)) > 3 * VarIdxN(Len(Iois)) * Sum(Iois)
                 THEN IF CovN(Iois) < 0 THEN "accelerating" ELSE "decelerating"
            ELSE IF RegularityAbove07(ret.rhythm_regularity) THEN "regular"
            ELSE "irregular"

\* C12: rhythm_regularity is in [0, 1]: 0 with fewer than 2 onsets, 0.5
\* with exactly 2, and 1 / (1 + std / mean) of the inter-onset intervals
\* with 3 or more, which is 1 exactly when all intervals are equal
C12_RegularityInUnitInterval ==
    TrajectoriesReturned =>
        LET g == ret.rhythm_regularity
            l == Len(Iois)
        IN  /\ g.a >= 0 /\ g.a <= g.b /\ g.cv2[1] >= 0 /\ g.cv2[2] > 0
            /\ Len(Onsets) < 2 => g = RegularityZero
            /\ Len(Onsets) = 2 => g = RegularityHalf
            /\ l >= 2 =>
                   /\ g.a = 1 /\ g.b = 1
                   \* cv2 = std^2 / mean^2, std^2 = DevN / (l * (l - 1))
                   /\ RatEq(g.cv2, <<l * DevN(Iois), (l - 1) * Sum(Iois) * Sum(Iois)>>)
                   /\ (g.cv2[1] = 0) <=> (\A i, j \in 1..l : Iois[i] = Iois[j])

\* a clip with four onsets at unequal intervals has been analysed
C12_Witness ==
    /\ TrajectoriesReturned
    /\ Len(Onsets) = 4
    /\ ret.rhythm_regularity.cv2[1] > 0

AllFeaturesCalled == ret.op = "extract_all_features"

\* C13: extract_all_features returns a complete record, raising nothing,
\* for every 2-D matrix with at least one frame (all-zero, single-frame,
\* two-frame and zero-variance matrices included)
C13_AllFeaturesNeverRaisesOn2D ==
    AllFeaturesCalled /\ Len(ret.args.shape) = 2 =>
        /\ ret.raised = "none"
        /\ DOMAIN ret.features = MelFeaturesFields

\* the tensor is not 2-D and not 3-D with a leading dimension of 1
WrongRank(shape) ==
    \/ Len(shape) \notin {2, 3}
    \/ Len(shape) = 3 /\ shape[1] > 1

\* C14: for an input whose rank is not 2 (rank 0, 1, 3 with a leading
\* dimension above 1, 4 or more) extract_all_features raises before any
\* extraction stage is run
C14_WrongRankRaisesBeforeAnyStage ==
    AllFeaturesCalled /\ WrongRank(ret.args.shape) =>
        /\ ret.raised # "none"
        /\ ret.stages_run = 0

\* C15: extract_all_features either runs all eight stages and returns a
\* MelFeatures with every field set, or raises and constructs no
\* MelFeatures; it never yields a partial record
C15_NoPartialRecord ==
    AllFeaturesCalled =>
        \/ /\ ret.raised = "none"
            /\ ret.stages_run = 8
            /\ DOMAIN ret.features = MelFeaturesFields
        \/ /\ ret.raised # "none"
            /\ ret.features = NoFeatures

\* a 2-D call has raised in the last stage, after seven stages had
\* computed their features
C15_Witness ==
    /\ AllFeaturesCalled
    /\ Len(ret.args.shape) = 2
    /\ ret.raised # "none"
    /\ ret.stages_run = 8
    /\ ret.features = NoFeatures

HealthyClips == {run.remaining[j] : j \in 1..Len(run.remaining)} \ run.failing

\* C17: when one clip of a process_directory run fails, only that clip is
\* skipped: every other clip, the other clips of its batch included, has a
\* record in all_results and in features_final.jsonl
C17_OnlyFailedClipSkipped ==
    run.pc = "done" /\ run.stage = "features" /\ run.final.written =>
        /\ HealthyClips \subseteq FileNames(run.all_results)
        /\ HealthyClips \subseteq FileNames(run.final.lines)

\* num_processed when a checkpoint file was last written: by this run
\* (checkpoint or error checkpoint), else by the run it resumed from
LastCheckpointedCount ==
    LET counts == {Cardinality(FileNames(run.resume_results))}
                  \cup (IF run.checkpoint.written
                        THEN {run.checkpoint.num_processed} ELSE {})
                  \cup (IF run.checkpoint_error.written
                        THEN {run.checkpoint_error.num_processed} ELSE {})
    IN  CHOOSE c \in counts : \A d \in counts : d <= c

\* C18: in both stages, for every batch size and checkpoint_every, at no
\* point of a run have more than checkpoint_every plus one batch of samples
\* been processed since a checkpoint file was last written
C18_CheckpointEveryNSamples ==
    run.pc \in {"loop", "done"} =>
        run.num_processed - LastCheckpointedCount
            <= run.checkpoint_every + run.batch_size

\* C19: for every pair of curves and every min_gap >= 1, any two
\* consecutive entries of the list _detect_changepoints returns (frame 0,
\* the accepted changepoints, the last frame) are at least min_gap apart
C19_BoundariesAtLeastMinGapApart ==
    ret.op = "_detect_changepoints" /\ ret.raised = "none" =>
        \A j \in 1..(Len(ret.changepoints) - 1) :
            ret.changepoints[j + 1] - ret.changepoints[j] >= ret.args.min_gap

\* the curve of the last _classify_envelope_shape call, its exact slope and
\* what the float comparisons made of the values on a threshold
EnvelopeCalled == ret.op = "_classify_envelope_shape"

CalledCurve == ret.args.energy_normalized

CalledSlope == EnvelopeSlope(CalledCurve)

StdAtMostQuarter ==
    LET d == CalledCurve.d
        r == CalledCurve.r
        n == Len(d)
    IN  /\ n >= 2
        /\ 16 * DevN(d) <= n * (n - 1) * r * r
        /\ VariationTie(CalledCurve) => ~ret.args.ties.envelope_variation

AbsSlopeBelowThreshold ==
    \/ 10 * Abs(CalledSlope[1]) < 3 * CalledSlope[2]
    \/ EnvelopeSlopeTie(CalledCurve) /\ ret.args.ties.envelope_slope = "below"

PitchCalled == ret.op = "_classify_pitch_movement" /\ ret.raised = "none"

CalledCentroid == ret.args.centroid_over_time

CalledMaxJump2 ==
    LET diff == Diff(CalledCentroid)
    IN  SeqMax([i \in 1..Len(diff) |-> Abs(diff[i])])

\* std > bins, for a whole number of bins
CentroidStdAbove(bins) ==
    LET n == Len(CalledCentroid)
    IN  DevN(CalledCentroid) > 4 * bins * bins * n * (n - 1)

CentroidStdBelow(bins) ==
    LET n == Len(CalledCentroid)
    IN  DevN(CalledCentroid) < 4 * bins * bins * n * (n - 1)

\* the regression slope of the curve over x = linspace(0, 1, n), in bins
CentroidSlope ==
    LET n == Len(CalledCentroid)
    IN  Rat((n - 1) * CovN(CalledCentroid), 2 * VarIdxN(n))

\* the number of places where the detrended curve changes sign
SignChangeCrossings ==
    LET detrended == Detrended(CalledCentroid)
    IN  Cardinality({i \in 1..(Len(detrended) - 1) :
                        Sign(detrended[i]) # Sign(detrended[i + 1])})

\* no value of the detrended curve is zero, so that rounding cannot turn
\* a sign
DetrendedOffZero ==
    \A i \in 1..Len(CalledCentroid) : Detrended(CalledCentroid)[i] # 0

\* C21: _classify_pitch_movement applies its guards in priority order: a
\* jump above 10 bins gives "jumping"; else std > 8 gives "wobbling" when
\* the detrended curve has more than 6 sign-change crossings and "complex"
\* otherwise; else std < 3 gives "stable"; else |slope| > 5 gives "rising"
\* or "falling" by the sign of the slope; otherwise "stable".
C21_PitchGuardsInPriorityOrder ==
    (PitchCalled /\ DetrendedOffZero)
        => ret.pitch_movement =
              IF CalledMaxJump2 > 2 * 10 THEN "jumping"
              ELSE IF CentroidStdAbove(8)
                   THEN IF SignChangeCrossings > 6 THEN "wobbling" ELSE "complex"
              ELSE IF CentroidStdBelow(3) THEN "stable"
              ELSE IF RatLt(<<5, 1>>, <<Abs(CentroidSlope[1]), CentroidSlope[2]>>)
                   THEN IF CentroidSlope[1] > 0 THEN "rising" ELSE "falling"
              ELSE "stable"

\* the last call was of _fuse_similar_segments
FuseCalled == ret.op = "_fuse_similar_segments"

\* the passes of the for loop of that call: pass j looks at the segment
\* FuseSeg(j) with FusePrev(j) the last kept segment, and leaves the kept
\* list FuseAfter(j)
FusePasses == 1..(Len(ret.trace) - 1)

FuseSeg(j) == ret.args.segments[j + 1]

FuseBefore(j) == ret.trace[j]

FuseAfter(j) == ret.trace[j + 1]

FusePrev(j) == FuseBefore(j)[Len(FuseBefore(j))]

FuseKept(j) == FuseAfter(j)[Len(FuseAfter(j))]

\* the fusion criterion, between the kept segment as it is and a segment
FusionCriterion(prev, seg, loudness_threshold, pitch_threshold) ==
    /\ Abs(seg.loudness.slope_db_per_sec - prev.loudness.slope_db_per_sec)
          < loudness_threshold
    /\ Abs(seg.loudness.mean_db - prev.loudness.mean_db) < 50
    /\ Abs(seg.pitch.slope_mel_per_sec - prev.pitch.slope_mel_per_sec)
          < 10 * pitch_threshold

FusePassMerges(j) ==
    FusionCriterion(FusePrev(j), FuseSeg(j), ret.args.loudness_threshold,
                    ret.args.pitch_threshold)

\* pass j merged the segment into the kept one / appended it
MergedInPass(j) == Len(FuseAfter(j)) = Len(FuseBefore(j))

AppendedInPass(j) == FuseAfter(j) = Append(FuseBefore(j), FuseSeg(j))

\* C22: _fuse_similar_segments scans left to right and merges a segment
\* into the last kept segment iff the three differences are below their
\* thresholds, the mean compared being the kept segment's current one; on
\* merge the kept end_time becomes the segment's and mean_db and mean_mel_bin
\* become the arithmetic mean of the two values.
C22_FuseMergesIffSimilarExactMeans ==
    FuseCalled =>
        \A j \in FusePasses :
            IF FusePassMerges(j)
            THEN /\ MergedInPass(j)
                 /\ FuseKept(j).end_time = FuseSeg(j).end_time
                 /\ 2 * FuseKept(j).loudness.mean_db
                       = FusePrev(j).loudness.mean_db + FuseSeg(j).loudness.mean_db
                 /\ 2 * FuseKept(j).pitch.mean_mel_bin
                       = FusePrev(j).pitch.mean_mel_bin + FuseSeg(j).pitch.mean_mel_bin
            ELSE AppendedInPass(j)

\* C22, amended: as above, with mean_db and mean_mel_bin becoming the
\* arithmetic mean of the two values rounded to one decimal.
C22_FuseMergesIffSimilarRoundedMeans ==
    FuseCalled =>
        \A j \in FusePasses :
            IF FusePassMerges(j)
            THEN /\ MergedInPass(j)
                 /\ FuseKept(j).end_time = FuseSeg(j).end_time
                 /\ Abs(2 * FuseKept(j).loudness.mean_db
                          - (FusePrev(j).loudness.mean_db + FuseSeg(j).loudness.mean_db)) <= 1
                 /\ Abs(2 * FuseKept(j).pitch.mean_mel_bin
                          - (FusePrev(j).pitch.mean_mel_bin + FuseSeg(j).pitch.mean_mel_bin)) <= 1
            ELSE AppendedInPass(j)

\* a segment is merged that differs by 5 dB or more from the mean the kept
\* segment started with, and another one is appended
C22_Witness ==
    /\ FuseCalled
    /\ \E j \in FusePasses :
          /\ FusePassMerges(j)
          /\ Abs(FuseSeg(j).loudness.mean_db - ret.args.segments[1].loudness.mean_db) >= 50
          /\ Len(FuseBefore(j)) = 1
    /\ \E j \in FusePasses : ~FusePassMerges(j)

\* the last call was of _merge_to_max_segments
MergeCalled == ret.op = "_merge_to_max_segments"

\* the passes of the while loop of that call: pass j turns the list
\* MergeBefore(j) into MergeAfter(j)
MergePasses == 1..(Len(ret.trace) - 1)

MergeBefore(j) == ret.trace[j]

MergeAfter(j) == ret.trace[j + 1]

MeanDbDifference(segments, i) ==
    Abs(segments[i].loudness.mean_db - segments[i + 1].loudness.mean_db)

\* i (1-based) is the lowest index among the adjacent pairs of the list
\* with the smallest difference in mean dB
IsClosestPair(segments, i) ==
    /\ i \in 1..(Len(segments) - 1)
    /\ \A k \in 1..(Len(segments) - 1) :
          MeanDbDifference(segments, i) <= MeanDbDifference(segments, k)
    /\ \A k \in 1..(i - 1) :
          MeanDbDifference(segments, k) > MeanDbDifference(segments, i)

\* after is before with the pair at i replaced by one segment that takes
\* its start from the first and its end from the second of the pair and
\* its labels from the first, everything else left as it was
PairReplaced(before, after, i) ==
    LET seg1 == before[i]
        seg2 == before[i + 1]
        merged == after[i]
    IN  /\ Len(after) = Len(before) - 1
        /\ \A k \in 1..(i - 1) : after[k] = before[k]
        /\ \A k \in (i + 1)..Len(after) : after[k] = before[k + 1]
        /\ merged.start_time = seg1.start_time
        /\ merged.loudness.start_db = seg1.loudness.start_db
        /\ merged.pitch.start_mel_bin = seg1.pitch.start_mel_bin
        /\ merged.end_time = seg2.end_time
        /\ merged.loudness.end_db = seg2.loudness.end_db
        /\ merged.pitch.end_mel_bin = seg2.pitch.end_mel_bin
        /\ merged.loudness.classification = seg1.loudness.classification
        /\ merged.pitch.classification = seg1.pitch.classification

\* slope * (end_time - start_time) - (end value - start value), in the
\* units of the record: times in hundredths, values in tenths, the
\* loudness slope in tenths and the pitch slope in hundredths
LoudnessSlopeError(merged) ==
    merged.loudness.slope_db_per_sec * (merged.end_time - merged.start_time)
        - 100 * (merged.loudness.end_db - merged.loudness.start_db)

PitchSlopeError(merged) ==
    merged.pitch.slope_mel_per_sec * (merged.end_time - merged.start_time)
        - 1000 * (merged.pitch.end_mel_bin - merged.pitch.start_mel_bin)

\* C23: each step of _merge_to_max_segments merges the lowest-index
\* adjacent pair with the smallest difference in mean dB; the merged
\* segment takes its start fields from the first and its end fields from
\* the second, has slopes equal to (end value - start value) /
\* (end_time - start_time), inherits both labels from the first, and the
\* other segments are left unchanged and in order.
C23_MergeStepExactSlopes ==
    MergeCalled =>
        \A j \in MergePasses :
            \E i \in 1..(Len(MergeBefore(j)) - 1) :
                /\ IsClosestPair(MergeBefore(j), i)
                /\ PairReplaced(MergeBefore(j), MergeAfter(j), i)
                /\ LoudnessSlopeError(MergeAfter(j)[i]) = 0
                /\ PitchSlopeError(MergeAfter(j)[i]) = 0

\* C23, amended: as above, with the loudness slope equal to the quotient
\* rounded to one decimal and the pitch slope to the quotient rounded to
\* two decimals.
C23_MergeStepRoundedSlopes ==
    MergeCalled =>
        \A j \in MergePasses :
            \E i \in 1..(Len(MergeBefore(j)) - 1) :
                /\ IsClosestPair(MergeBefore(j), i)
                /\ PairReplaced(MergeBefore(j), MergeAfter(j), i)
                /\ 2 * Abs(LoudnessSlopeError(MergeAfter(j)[i]))
                      <= MergeAfter(j)[i].end_time - MergeAfter(j)[i].start_time
                /\ 2 * Abs(PitchSlopeError(MergeAfter(j)[i]))
                      <= MergeAfter(j)[i].end_time - MergeAfter(j)[i].start_time

\* a call of two passes or more, one of them with two pairs equally close
\* and segments on both sides of the merged pair
C23_Witness ==
    /\ MergeCalled
    /\ Len(ret.trace) >= 3
    /\ \E j \in MergePasses :
          \E i \in 2..(Len(MergeBefore(j)) - 2) :
             /\ IsClosestPair(MergeBefore(j), i)
             /\ MeanDbDifference(MergeBefore(j), i) = MeanDbDifference(MergeBefore(j), i + 1)

\* C24: for a list of n segments and max_segments >= 1,
\* _merge_to_max_segments returns after exactly n - max_segments merges
\* with exactly max_segments segments when n > max_segments, and returns
\* the list unchanged when n <= max_segments.
C24_MergeCountAndResultLength ==
    (MergeCalled /\ ret.args.max_segments >= 1)
        => IF Len(ret.args.segments) > ret.args.max_segments
           THEN /\ ret.raised = "none"
                /\ Len(ret.trace) - 1 = Len(ret.args.segments) - ret.args.max_segments
                /\ Len(ret.segments) = ret.args.max_segments
           ELSE /\ ret.raised = "none"
                /\ Len(ret.trace) = 1
                /\ ret.segments = ret.args.segments

\* a call that has to merge three times
C24_Witness ==
    /\ MergeCalled
    /\ Len(ret.args.segments) = ret.args.max_segments + 3
    /\ Len(ret.segments) = ret.args.max_segments

\* the last call was of detect_salient_events, and the frames (0-based) of
\* the peaks it returned
EventsCalled == ret.op = "detect_salient_events"

ReturnedPeaks == {ret.peak_times[j] \div config.hop_length : j \in 1..Len(ret.peak_times)}

ClipPower(i) == LinearPower(mel_power, i)

\* the smallest power among the up to 10 frames before / after frame i
LeftMinimum(i) ==
    LET frames == {j \in 0..(i - 1) : i - j <= 10}
    IN  CHOOSE p \in {ClipPower(j) : j \in frames} : \A j \in frames : p <= ClipPower(j)

RightMinimum(i) ==
    LET frames == {j \in (i + 1)..(Frames - 1) : j - i <= 10}
    IN  CHOOSE p \in {ClipPower(j) : j \in frames} : \A j \in frames : p <= ClipPower(j)

PowerRange ==
    LET powers == {ClipPower(j) : j \in 0..(Frames - 1)}
    IN  (CHOOSE p \in powers : \A q \in powers : p >= q)
            - (CHOOSE p \in powers : \A q \in powers : p <= q)

\* frame i is an interior strict local maximum whose prominence is at least
\* min_prominence_ratio * (max - min)
IsProminentPeak(i) ==
    /\ 0 < i
    /\ i < Frames - 1
    /\ ClipPower(i) > ClipPower(i - 1)
    /\ ClipPower(i) > ClipPower(i + 1)
    /\ 100 * (ClipPower(i) - Max2(LeftMinimum(i), RightMinimum(i)))
          >= ret.args.min_prominence_ratio * PowerRange

\* C25: every peak returned by detect_salient_events is at an interior
\* frame whose power is strictly above both neighbours and whose
\* prominence over the larger of the minima of the up to 10 frames on
\* either side is at least min_prominence_ratio * (max - min); the first
\* frame, the last frame and plateau maxima are never returned.
C25_ReturnedPeaksAreProminentInteriorMaxima ==
    EventsCalled => \A i \in ReturnedPeaks : IsProminentPeak(i)

\* a peak is returned although a frame more than 10 frames before it is
\* lower than every frame of its window, and a frame that is as high as
\* its right neighbour is not returned
C25_Witness ==
    /\ EventsCalled
    /\ \E i \in ReturnedPeaks :
          \E j \in 0..(i - 11) : ClipPower(j) < LeftMinimum(i)
    /\ \E i \in 1..(Frames - 2) :
          /\ i \notin ReturnedPeaks
          /\ ClipPower(i) = ClipPower(i + 1)
          /\ ClipPower(i) > ClipPower(i - 1)

\* the frames that pass the prominence test, and the frame spacing
\* int(min_inter_event_time * sample_rate / hop_length)
ProminentPeaks == {i \in 0..(Frames - 1) : IsProminentPeak(i)}

FrameSpacing == (ret.args.min_inter_event_time * config.sample_rate) \div (100 * config.hop_length)

\* the accepted peak a is within the spacing of a returned peak that is at
\* least as high
ShadowedByReturnedPeak(a) ==
    \E r \in ReturnedPeaks : Abs(a - r) < FrameSpacing /\ ClipPower(r) >= ClipPower(a)

\* C29: when a peak passes the prominence test and num_peaks >= 1, a peak
\* of the greatest magnitude is returned, and every accepted peak that is
\* not returned is within the frame spacing of a returned peak of greater
\* or equal magnitude, or num_peaks peaks had been selected.
C29_StrongestPeakReturned ==
    (EventsCalled /\ ret.args.num_peaks >= 1 /\ ProminentPeaks # {})
        => /\ \E r \in ReturnedPeaks : \A a \in ProminentPeaks : ClipPower(r) >= ClipPower(a)
           /\ \A a \in ProminentPeaks \ ReturnedPeaks :
                 \/ ShadowedByReturnedPeak(a)
                 \/ Cardinality(ReturnedPeaks) >= ret.args.num_peaks

\* the strongest peak is returned and is not the earliest one, and a peak
\* is dropped for the spacing alone
C29_Witness ==
    /\ EventsCalled
    /\ ret.args.num_peaks >= 1
    /\ \E r \in ReturnedPeaks, a \in ProminentPeaks : a < r /\ ClipPower(a) < ClipPower(r)
    /\ \E a \in ProminentPeaks \ ReturnedPeaks :
          /\ ShadowedByReturnedPeak(a)
          /\ Cardinality(ReturnedPeaks) < ret.args.num_peaks

\* C26: no two adjacent segments of the output of _fuse_similar_segments
\* satisfy the fusion criterion, so that fusing the output again, with the
\* same thresholds, returns it unchanged.
C26_FusionIsIdempotent ==
    FuseCalled =>
        /\ \A k \in 1..(Len(ret.segments) - 1) :
              ~FusionCriterion(ret.segments[k], ret.segments[k + 1],
                               ret.args.loudness_threshold, ret.args.pitch_threshold)
        /\ FuseSimilarSegments(ret.segments, ret.args.loudness_threshold,
                               ret.args.pitch_threshold) = ret.segments

\* the segments a and b agree on every field but end_time, duration,
\* loudness.mean_db and pitch.mean_mel_bin
SameButSpanAndMeans(a, b) ==
    [a EXCEPT !.end_time = b.end_time,
              !.duration = b.duration,
              !.loudness.mean_db = b.loudness.mean_db,
              !.pitch.mean_mel_bin = b.pitch.mean_mel_bin] = b

\* C27: a fusion merge changes only end_time, duration, loudness.mean_db
\* and pitch.mean_mel_bin of the kept segment; its other fields stay those
\* of the first segment of the fused run, and segments that are not fused
\* are passed through unchanged.
C27_FusionChangesOnlySpanAndMeans ==
    FuseCalled =>
        /\ \A j \in FusePasses :
              /\ \A k \in 1..(Len(FuseBefore(j)) - 1) : FuseAfter(j)[k] = FuseBefore(j)[k]
              /\ IF MergedInPass(j)
                 THEN SameButSpanAndMeans(FuseKept(j), FusePrev(j))
                 ELSE AppendedInPass(j)
        /\ \A k \in 1..Len(ret.segments) :
              \E i \in 1..Len(ret.args.segments) :
                 /\ ret.args.segments[i].start_time = ret.segments[k].start_time
                 /\ SameButSpanAndMeans(ret.segments[k], ret.args.segments[i])
                 /\ ret.segments[k].end_time = ret.args.segments[i].end_time
                       => ret.segments[k] = ret.args.segments[i]

\* a run of three segments is fused into one and another segment is
\* passed through
C27_Witness ==
    /\ FuseCalled
    /\ Len(ret.args.segments) = 4
    /\ Len(ret.segments) = 2
    /\ \E k \in 1..2 : ret.segments[k].duration >= 150
    /\ \E k \in 1..2 : ret.segments[k] \in {ret.args.segments[i] : i \in 1..4}

\* each segment of the list ends where the next one starts
Contiguous(segments) ==
    \A k \in 1..(Len(segments) - 1) : segments[k].end_time = segments[k + 1].start_time

\* C28: for a non-empty list, the output of _fuse_similar_segments and of
\* _merge_to_max_segments has the first start_time and the last end_time
\* of its input, and is contiguous if the input is.
C28_SpanAndContiguityPreserved ==
    ((FuseCalled \/ MergeCalled) /\ Len(ret.args.segments) >= 1)
        => /\ Len(ret.segments) >= 1
           /\ ret.segments[1].start_time = ret.args.segments[1].start_time
           /\ ret.segments[Len(ret.segments)].end_time
                 = ret.args.segments[Len(ret.args.segments)].end_time
           /\ Contiguous(ret.args.segments) => Contiguous(ret.segments)

\* a contiguous list of four segments is capped to two
C28_Witness ==
    /\ MergeCalled
    /\ Len(ret.args.segments) = 4
    /\ Contiguous(ret.args.segments)
    /\ Len(ret.segments) = 2
    /\ Contiguous(ret.segments)

\* the clips handed to process_batch so far, in order
Submitted == run.submitted

\* no file_name occurs twice in a list of records
DistinctFileNames(results) ==
    \A j, k \in 1..Len(results) :
        results[j].file_name = results[k].file_name => j = k

\* the files whose stem is not among the checkpoint's file_names, in
\* directory order
NotInCheckpoint ==
    SelectSeq(run.items, LAMBDA f : f \notin FileNames(run.resume_results))

\* C30: a process_directory run resumed from a checkpoint with distinct
\* file_names submits clips only from the files whose stem is not in the
\* checkpoint, each at most once, and all of them by the end of the run; at
\* every point of the run, after successful and failed batches alike, no
\* file_name occurs twice in all_results or in features_final.jsonl
C30_ResumeNeverRepeatsAClip ==
    run.stage = "features" /\ run.pc \in {"loop", "done"} =>
        /\ Len(Submitted) <= Len(NotInCheckpoint)
        /\ \A j \in 1..Len(Submitted) : Submitted[j] = NotInCheckpoint[j]
        /\ run.pc = "done" => Submitted = NotInCheckpoint
        /\ DistinctFileNames(run.all_results)
        /\ run.final.written => DistinctFileNames(run.final.lines)

C30_Witness ==
    /\ run.stage = "features" /\ run.pc = "done" /\ run.final.written
    /\ Len(run.resume_results) > 0
    /\ FileNames(run.resume_results) \cap {run.items[j] : j \in 1..Len(run.items)} # {}
    /\ \E f \in run.failing : \E j \in 1..Len(Submitted) : Submitted[j] = f
    /\ Len(run.all_results) > Len(run.resume_results)

====
